---- MODULE Spec2Model ----
(***************************************************************************)
(* Model of the user-agent session orchestrator (core/session runSession,  *)
(* core/step executeStep, core/context, utils/cost) as hosted by the       *)
(* server's executeSession, and of the pure function                       *)
(* calculateIntuitivenessScore.                                            *)
(*                                                                         *)
(* Units.  Date.now() is in milliseconds.  Money is kept exact: USD in     *)
(* millionths (the prices are 3 and 15 USD per million tokens) and CZK in  *)
(* ten-millionths (czkPerUsd = 23.5 = 235/10).  Scores are kept in tenths  *)
(* (the code rounds to one decimal place).                                 *)
(***************************************************************************)
EXTENDS Integers, Sequences, FiniteSets, TLC

VARIABLES
    config,            \* SessionConfig of the run
    deps,              \* SessionDependencies: what deps.llm may answer
    pc,                \* position of the executeSession/runSession await chain
    now,               \* Date.now()
    startTime,         \* runSession: const startTime
    sessionStartTime,  \* runSession: const sessionStartTime
    endTime,           \* runSession: const endTime
    stepNumber,        \* runSession: loop variable
    steps,             \* runSession: const steps: StepResult[]
    context,           \* runSession: let context
    tracker,           \* createCostTracker closure: inputTokens, outputTokens
    cur,               \* executeStep locals of the step in flight
    browser,           \* browser manager: calls made and whether it is open
    exitLog,           \* the loop-exit message runSession handed to the logger
    report,            \* runSession: const report (<<>> until assembled)
    outcome,           \* settlement of the runSession promise
    session,           \* the registry entry executeSession writes to
    other,             \* result of an alternative execution with the same config
    scoreIn,           \* argument of calculateIntuitivenessScore
    scoreOut,          \* its result (<<>> until called)
    noteIn,            \* argument of classifyNoteSentiment
    sentimentOut,      \* its result ("" until called)
    issueIn,           \* generateAcceptanceCriteria: argument issue
    categoryIn,        \* generateAcceptanceCriteria: argument category
    criteriaOut,       \* its result (<<>> until called)
    detected,          \* detectCategory and detectSeverity: their results (empty until called)
    retry,             \* utils/retry withRetry: its options, locals and calls of fn
    cli,               \* llm/claude-cli: the operation in progress and its retry wrapper
    sessions,          \* server: const sessions = new Map<string, SessionState>()
    tasks,             \* server: where the executeSession of each session stands
    env,               \* server: process.env (API_KEY, LLM_PROVIDER)
    uuids,             \* server: how many ids randomUUID has handed out
    clock,             \* server: Date.now()
    exchange,          \* server: the last request and the reply to it
    usageLog,          \* utils/cost: the arguments of the addUsage calls made so far
    heap,              \* core/context: the objects and arrays its functions allocated
    runs               \* server: the browser manager and cost tracker of each executeSession

runVars == <<pc, now, startTime, sessionStartTime, endTime, stepNumber, steps,
             context, tracker, cur, browser, exitLog, report, outcome, session>>
scoreVars == <<scoreIn, scoreOut>>
textVars == <<noteIn, sentimentOut, issueIn, categoryIn, criteriaOut, detected>>
serverVars == <<sessions, tasks, env, uuids, clock, exchange, runs>>
sideVars == <<retry, cli, serverVars, usageLog, heap>>
vars == <<config, deps, runVars, other, scoreVars, textVars, sideVars>>

----------------------------------------------------------------------------
(* Bounds of the exploration *)

MaxStepsBound == 3     \* largest config.maxSteps
MaxTicks == 4          \* the clock stops advancing after this many ticks
MaxBigCalls == 2       \* at most this many LLM calls report the large usage
MaxScoreLen == 6       \* longest step list given to the score calculator
MaxUpdates == 3        \* longest sequence of updateContext calls
MaxWords == 3          \* most words of a text given to the text functions
MaxJsonSteps == 3      \* most steps of a report given to buildJsonReport
MaxAttempts == 3       \* largest attempts option given to withRetry

(* Program constants *)
PRICE_PER_INPUT_TOKEN_USD == 3      \* millionths of a USD
PRICE_PER_OUTPUT_TOKEN_USD == 15    \* millionths of a USD
czkPerUsdTenths == 235              \* defaults.czkPerUsd = 23.5
MsPerSecond == 1000                 \* config.timeout * 1000

(* Inputs *)
Delays == {0, 1000}                    \* ms an awaited call may take
MaxClock == MaxTicks * 1000
SmallUsage == <<100, 10>>              \* <<inputTokens, outputTokens>>
BigUsage == <<20000, 1700>>            \* about 2 CZK
Usages == {SmallUsage, BigUsage}
Timeouts == {2}                        \* config.timeout, seconds
Waits == {1}                           \* config.waitBetweenActions, seconds
Budgets == {1}                         \* config.budgetCZK
JsonPaths == {FALSE, TRUE}             \* whether config.jsonOutputPath is set
(* one CZK in the unit of getTotalCostCZK: millionths (the prices) of tenths *)
CZKScale == 1000000 * 10

Configs ==
    [maxSteps : 1..MaxStepsBound, timeout : Timeouts, waitBetweenActions : Waits,
     budgetCZK : Budgets, jsonOutputPath : JsonPaths, intent : {"buy a ticket"}]

EvaluationResult == {"met", "unmet", "partial", "surprised"}

BadNote == <<"B", "a", "d", " ", "m", "e", "n", "u">>
FineNote == <<"o", "k">>
LoudNote == <<"E", "R", "R", "O", "R">>

(* What llm.evaluateResult may return in a session run *)
UnmetEvaluation ==
    [result |-> "unmet", reality |-> "nothing happened", notes |-> <<BadNote>>,
     suggestions |-> <<"label the menu">>, userQuote |-> "where is it?"]

Evaluations ==
    { [result |-> "met", reality |-> "as expected", notes |-> <<FineNote>>,
       suggestions |-> <<>>, userQuote |-> ""],
      UnmetEvaluation }

ActionTypes == {"click", "type", "fill", "scroll", "wait", "navigate", "read"}

(* vision.capture().snapshot: the elements of the page, with their ids *)
Snapshot ==
    <<[id |-> "e1", role |-> "textbox", name |-> "Email"],
      [id |-> "e2", role |-> "textbox", name |-> "Password"],
      [id |-> "e3", role |-> "button", name |-> "Sign in"]>>

(* ActionDecision; "" and <<>> stand for an absent elementId, value, inputs *)
NoAction == [action |-> "none", elementId |-> "", value |-> "", inputs |-> <<>>]
ClickAction == [NoAction EXCEPT !.action = "click", !.elementId = "e3"]
ClickMissing == [NoAction EXCEPT !.action = "click", !.elementId = "e9"]
ReadAction == [NoAction EXCEPT !.action = "read"]
FillAction ==
    [NoAction EXCEPT !.action = "fill",
                     !.inputs = <<[elementId |-> "e1", value |-> "a@b.cz"],
                                  [elementId |-> "e2", value |-> "secret"]>>]

(* what llm.decideAction may return here *)
ActionDecisions == {ClickAction, ClickMissing, ReadAction, FillAction}

(* The LLM collaborator of a run: the answers it may give *)
AnyLLM == [evaluations |-> Evaluations, actions |-> ActionDecisions]
TerseLLM == [evaluations |-> {UnmetEvaluation}, actions |-> {ClickAction}]

(* executeStep before its first await.  ops are the page operations the    *)
(* action performed; pageOk tells whether the page carried them out.       *)
NoStep ==
    [timestamp |-> 0, snapshot |-> <<>>, action |-> NoAction, actionSuccess |-> TRUE,
     ops |-> <<>>, pageOk |-> TRUE]

----------------------------------------------------------------------------
(* Strings are sequences of one-character strings, so that toLowerCase and *)
(* includes are computed rather than assumed.  A character outside ASCII   *)
(* is written by its code point, "U+00ED" for i-acute.                      *)

UpperChars == <<"A", "B", "C", "D", "E", "F", "G", "H", "I", "J", "K", "L", "M", "N", "O", "P", "Q", "R", "S", "T", "U", "V", "W", "X", "Y", "Z">>
LowerChars == <<"a", "b", "c", "d", "e", "f", "g", "h", "i", "j", "k", "l", "m", "n", "o", "p", "q", "r", "s", "t", "u", "v", "w", "x", "y", "z">>

(* String.prototype.toLowerCase, on the letters the modelled notes use *)
toLowerCase(s) ==
    [i \in 1..Len(s) |->
        IF \E k \in 1..Len(UpperChars) : UpperChars[k] = s[i]
        THEN LowerChars[CHOOSE k \in 1..Len(UpperChars) : UpperChars[k] = s[i]]
        ELSE s[i]]

(* String.prototype.includes *)
includes(s, sub) ==
    \E i \in 0..(Len(s) - Len(sub)) :
        \A j \in 1..Len(sub) : s[i + j] = sub[j]

(* Keywords that indicate UX issues (English and Czech) *)
issueKeywords ==
    <<
      <<"c", "o", "n", "f", "u", "s">>,
      <<"u", "n", "c", "l", "e", "a", "r">>,
      <<"d", "i", "f", "f", "i", "c", "u", "l", "t">>,
      <<"h", "i", "d", "d", "e", "n">>,
      <<"m", "i", "s", "s", "i", "n", "g">>,
      <<"f", "r", "u", "s", "t", "r", "a", "t">>,
      <<"b", "r", "o", "k", "e", "n">>,
      <<"i", "n", "c", "o", "n", "s", "i", "s", "t", "e", "n", "t">>,
      <<"u", "n", "u", "s", "a", "b", "l", "e">>,
      <<"p", "o", "o", "r">>,
      <<"b", "a", "d">>,
      <<"p", "r", "o", "b", "l", "e", "m">>,
      <<"e", "r", "r", "o", "r">>,
      <<"f", "a", "i", "l">>,
      <<"w", "r", "o", "n", "g">>,
      <<"b", "u", "g">>,
      <<"i", "s", "s", "u", "e">>,
      <<"d", "o", "e", "s", "n", "'", "t", " ", "w", "o", "r", "k">>,
      <<"n", "o", "t", " ", "w", "o", "r", "k">>,
      <<"h", "a", "r", "d", " ", "t", "o">>,
      <<"c", "a", "n", "n", "o", "t">>,
      <<"c", "a", "n", "'", "t">>,
      <<"i", "m", "p", "o", "s", "s", "i", "b", "l", "e">>,
      <<"u", "n", "i", "n", "t", "u", "i", "t", "i", "v", "e">>,
      <<"n", "e", "k", "o", "n", "z", "i", "s", "t", "e", "n", "t">>,
      <<"c", "h", "y", "b", "U+00ED">>,
      <<"p", "r", "o", "b", "l", "U+00E9", "m">>,
      <<"U+0161", "p", "a", "t", "n", "U+011B">>,
      <<"U+0161", "p", "a", "t", "n", "U+00E1">>,
      <<"U+0161", "p", "a", "t", "n", "U+00FD">>,
      <<"n", "e", "f", "u", "n", "g", "u", "j", "e">>,
      <<"n", "e", "r", "e", "a", "g", "u", "j", "e">>,
      <<"m", "a", "t", "o", "u", "c", "U+00ED">>,
      <<"n", "e", "j", "a", "s", "n">>,
      <<"n", "e", "l", "o", "g", "i", "c", "k">>,
      <<"o", "b", "t", "U+00ED", "U+017E", "n">>,
      <<"k", "o", "m", "p", "l", "i", "k", "o", "v", "a", "n">>,
      <<"z", "m", "a", "t", "e", "k">>,
      <<"n", "e", "p", "o", "u", "U+017E", "i", "t", "e", "l", "n">>,
      <<"n", "e", "p", "U+0159", "e", "h", "l", "e", "d">>
    >>

isIssueNote(note) ==
    LET lower == toLowerCase(note)
    IN \E k \in 1..Len(issueKeywords) : includes(lower, issueKeywords[k])

createInitialContext(intent, pageContext) ==
    [intent |-> intent, pageContext |-> pageContext, currentSummary |-> "",
     lastStepResult |-> <<>>, stepCount |-> 0, issuesFound |-> <<>>]

(* A variant of updateContext that keeps only the issues of the last step *)
updateContextReplacing(ctx, stepResult, newSummary) ==
    LET newIssues == SelectSeq(stepResult.evaluation.notes, isIssueNote)
    IN [ctx EXCEPT !.currentSummary = newSummary,
                   !.lastStepResult = <<stepResult>>,
                   !.stepCount = ctx.stepCount + 1,
                   !.issuesFound = newIssues]

updateContext(ctx, stepResult, newSummary) ==
    LET newIssues == SelectSeq(stepResult.evaluation.notes, isIssueNote)
    IN [ctx EXCEPT !.currentSummary = newSummary,
                   !.lastStepResult = <<stepResult>>,
                   !.stepCount = ctx.stepCount + 1,
                   !.issuesFound = ctx.issuesFound \o newIssues]

(* The same two functions on objects.  heap.objects[r] is the object or   *)
(* array with reference r; a context object holds the reference of its    *)
(* issuesFound array.  An object literal and an array literal allocate.   *)
NoHeap == [objects |-> <<>>, call |-> [fn |-> "none"]]

(* the context with reference c, its array read through *)
deref(objects, c) == [objects[c] EXCEPT !.issuesFound = objects[objects[c].issuesFound]]

(* { intent, pageContext, currentSummary: '', stepCount: 0, issuesFound: [] } *)
createInitialContextIn(objects, intent, pageContext) ==
    LET withArray == Append(objects, createInitialContext(intent, pageContext).issuesFound)
        object == [createInitialContext(intent, pageContext)
                       EXCEPT !.issuesFound = Len(withArray)]
    IN [objects |-> Append(withArray, object), ref |-> Len(withArray) + 1]

(* A variant of updateContextIn that pushes the new issues onto the array *)
(* of the context it was given                                            *)
updateContextInPushing(objects, c, stepResult, newSummary) ==
    LET updated == updateContext(deref(objects, c), stepResult, newSummary)
        pushed == [objects EXCEPT ![objects[c].issuesFound] = updated.issuesFound]
        object == [updated EXCEPT !.issuesFound = objects[c].issuesFound]
    IN [objects |-> Append(Append(pushed, <<>>), object), ref |-> Len(objects) + 2]

(* { ...context, currentSummary, lastStepResult, stepCount,                *)
(*   issuesFound: [...context.issuesFound, ...newIssues] }                 *)
updateContextIn(objects, c, stepResult, newSummary) ==
    LET updated == updateContext(deref(objects, c), stepResult, newSummary)
        withArray == Append(objects, updated.issuesFound)
        object == [updated EXCEPT !.issuesFound = Len(withArray)]
    IN [objects |-> Append(withArray, object), ref |-> Len(withArray) + 1]

----------------------------------------------------------------------------
(* browser/actions executeAction, as called by the browser manager *)

(* an optional argument that was not passed *)
Undefined == <<>>

roleMap ==
    {"button", "link", "textbox", "checkbox", "radio", "combobox", "listbox", "menuitem",
     "option", "searchbox", "slider", "spinbutton", "switch", "tab", "treeitem"}

(* findElement returns a locator unless the element has no usable role and *)
(* no name                                                                 *)
findElementThrows(element) == element.role \notin roleMap /\ element.name = ""

(* Array.prototype.find: <<the first match>>, or Undefined *)
find(elements, id) ==
    IF \E i \in 1..Len(elements) : elements[i].id = id
    THEN <<elements[CHOOSE i \in 1..Len(elements) :
                       /\ elements[i].id = id
                       /\ \A k \in 1..(i - 1) : elements[k].id # id]>>
    ELSE Undefined

ActionFailed == [success |-> FALSE, ops |-> <<>>]

(* one page operation on the element: it throws if the locator cannot be   *)
(* built or the page does not carry the operation out                      *)
locatorAction(kind, element, value, pageOk) ==
    IF findElementThrows(element) \/ ~pageOk THEN ActionFailed
    ELSE [success |-> TRUE, ops |-> <<<<kind, element.id, value>>>>]

(* the loop of the fill case: stops at the first input that throws *)
RECURSIVE fillInputs(_, _, _, _)
fillInputs(inputs, allElements, pageOk, done) ==
    IF inputs = <<>> THEN [success |-> TRUE, ops |-> done]
    ELSE LET targetElement == find(allElements, Head(inputs).elementId)
         IN IF targetElement = Undefined THEN [success |-> FALSE, ops |-> done]
            ELSE LET r == locatorAction("fill", targetElement[1], Head(inputs).value, pageOk)
                 IN IF ~r.success THEN [success |-> FALSE, ops |-> done]
                    ELSE fillInputs(Tail(inputs), allElements, pageOk, done \o r.ops)

(* executeAction(page, action, element?, allElements?): every exception is *)
(* caught and reported as success: false.  element and allElements are     *)
(* Undefined or <<the value>>.                                             *)
executeAction(action, element, allElements, pageOk) ==
    CASE action.action = "click" ->
            IF element = Undefined THEN ActionFailed
            ELSE locatorAction("click", element[1], "", pageOk)
      [] action.action = "type" ->
            IF element = Undefined \/ action.value = "" THEN ActionFailed
            ELSE locatorAction("fill", element[1], action.value, pageOk)
      [] action.action = "fill" ->
            IF action.inputs = <<>> THEN ActionFailed
            ELSE IF allElements = Undefined THEN ActionFailed
            ELSE fillInputs(action.inputs, allElements[1], pageOk, <<>>)
      [] action.action = "scroll" ->
            IF element # Undefined
            THEN locatorAction("scrollIntoViewIfNeeded", element[1], "", pageOk)
            ELSE IF pageOk THEN [success |-> TRUE, ops |-> <<<<"scrollBy", "", "">>>>]
                 ELSE ActionFailed
      [] action.action = "wait" ->
            IF pageOk THEN [success |-> TRUE, ops |-> <<<<"waitForTimeout", "", action.value>>>>]
            ELSE ActionFailed
      [] action.action = "navigate" ->
            IF action.value = "" \/ ~pageOk THEN ActionFailed
            ELSE [success |-> TRUE, ops |-> <<<<"goto", "", action.value>>>>]
      [] action.action = "read" -> [success |-> TRUE, ops |-> <<>>]
      [] OTHER -> ActionFailed

(* A variant of browserExecuteAction that hands the snapshot on *)
browserExecuteActionWithSnapshot(action, currentSnapshot, pageOk) ==
    executeAction(action,
                  IF action.elementId # "" THEN find(currentSnapshot, action.elementId)
                  ELSE Undefined,
                  <<currentSnapshot>>, pageOk)

(* the browser manager's executeAction: the element is looked up in the    *)
(* current snapshot; the snapshot itself is not handed on                  *)
browserExecuteAction(action, currentSnapshot, pageOk) ==
    executeAction(action,
                  IF action.elementId # "" THEN find(currentSnapshot, action.elementId)
                  ELSE Undefined,
                  Undefined, pageOk)

----------------------------------------------------------------------------
(* utils/cost: createCostTracker *)

addUsage(t, input, output) ==
    [inputTokens |-> t.inputTokens + input, outputTokens |-> t.outputTokens + output]

(* in millionths of a USD *)
getTotalCostUSD(t) ==
    t.inputTokens * PRICE_PER_INPUT_TOKEN_USD + t.outputTokens * PRICE_PER_OUTPUT_TOKEN_USD

(* in ten-millionths of a CZK *)
getTotalCostCZK(t) == getTotalCostUSD(t) * czkPerUsdTenths

(* A variant of isOverBudget that forgets the conversion to CZK *)
isOverBudgetUSD(t, budgetCZK) == getTotalCostUSD(t) * 10 > budgetCZK * CZKScale

(* The totals, among those the model reaches with a cost equal to the      *)
(* budget, whose cost in doubles is above the exact product:               *)
(* (1999995 * (3 / 1000000) + 1 * (15 / 1000000)) * 23.5 is                *)
(* 141.00000000000003, while (2000000 * (3 / 1000000)) * 23.5 and          *)
(* (1999990 * (3 / 1000000) + 2 * (15 / 1000000)) * 23.5 are 141.          *)
RoundedUp == {[inputTokens |-> 1999995, outputTokens |-> 1]}

(* A variant of isOverBudget on exact numbers *)
isOverBudgetExactly(t, budgetCZK) == getTotalCostCZK(t) > budgetCZK * CZKScale

(* this.getTotalCostCZK() > budgetCZK, on doubles: the double is within a  *)
(* rounding error of the exact product, far less than one unit of          *)
(* getTotalCostCZK, so it compares with the budget as the exact product    *)
(* does unless the two are equal, and then the rounding decides            *)
isOverBudget(t, budgetCZK) ==
    \/ getTotalCostCZK(t) > budgetCZK * CZKScale
    \/ getTotalCostCZK(t) = budgetCZK * CZKScale /\ t \in RoundedUp

----------------------------------------------------------------------------
(* core/session: calculateIntuitivenessScore and generateSummary *)

(* Math.round(n / d) for d > 0: the nearest integer, halves towards +infinity *)
MathRound(n, d) == (2 * n + d) \div (2 * d)

Max(a, b) == IF a >= b THEN a ELSE b
Min(a, b) == IF a <= b THEN a ELSE b

(* The switch of the forEach body; the running score is kept in halves. *)
penaltyHalves(result) ==
    CASE result = "met" -> 0
      [] result = "partial" -> 2
      [] result = "unmet" -> 4
      [] result = "surprised" -> 3
      [] OTHER -> 0

RECURSIVE scoreLoop(_, _)
scoreLoop(stepList, halves) ==
    IF stepList = <<>> THEN halves
    ELSE scoreLoop(Tail(stepList), halves - penaltyHalves(Head(stepList).evaluation.result))

(* A variant of calculateIntuitivenessScore without the clamp *)
calculateUnclamped(stepList) ==
    IF Len(stepList) = 0 THEN 50
    ELSE MathRound(scoreLoop(stepList, 20) * 10, 2)

(* A variant of calculateIntuitivenessScore whose loop skips the first step *)
calculateSkippingFirst(stepList) ==
    IF Len(stepList) = 0 THEN 50
    ELSE Max(0, Min(100, MathRound(scoreLoop(Tail(stepList), 20) * 10, 2)))

(* The result is in tenths: Math.round(score * 10) is the number of tenths, *)
(* and the division by 10 and the clamp to [0, 10] are done on tenths.      *)
calculateIntuitivenessScore(stepList) ==
    IF Len(stepList) = 0 THEN 50
    ELSE LET halves == scoreLoop(stepList, 20)
         IN Max(0, Min(100, MathRound(halves * 10, 2)))

(* A variant of the de-duplication that drops only repeats of the string   *)
(* just before                                                             *)
RECURSIVE uniqueAdjacent(_)
uniqueAdjacent(xs) ==
    IF Len(xs) <= 1 THEN xs
    ELSE LET init == uniqueAdjacent(SubSeq(xs, 1, Len(xs) - 1))
         IN IF xs[Len(xs)] = xs[Len(xs) - 1] THEN init ELSE Append(init, xs[Len(xs)])

(* [...new Set(xs)]: first occurrences, in order *)
RECURSIVE unique(_)
unique(xs) ==
    IF xs = <<>> THEN <<>>
    ELSE LET init == unique(SubSeq(xs, 1, Len(xs) - 1))
             last == xs[Len(xs)]
         IN IF \E i \in 1..Len(init) : init[i] = last THEN init ELSE Append(init, last)

RECURSIVE collectImprovements(_)
collectImprovements(stepList) ==
    IF stepList = <<>> THEN <<>>
    ELSE Head(stepList).evaluation.suggestions \o collectImprovements(Tail(stepList))

RECURSIVE collectQuotes(_)
collectQuotes(stepList) ==
    IF stepList = <<>> THEN <<>>
    ELSE (IF Head(stepList).evaluation.userQuote # ""
          THEN <<Head(stepList).evaluation.userQuote>> ELSE <<>>)
         \o collectQuotes(Tail(stepList))

generateSummary(stepList, ctx) ==
    [totalSteps |-> Len(stepList),
     intuitivenessScore |-> calculateIntuitivenessScore(stepList),
     issuesFound |-> unique(ctx.issuesFound),
     improvements |-> unique(collectImprovements(stepList)),
     userQuotes |-> unique(collectQuotes(stepList))]

(* runSession: the report literal *)
assembleReport(cfg, start, end, stepList, ctx, t) ==
    [config |-> cfg, startTime |-> start, endTime |-> end, steps |-> stepList,
     summary |-> generateSummary(stepList, ctx),
     cost |-> [inputTokens |-> t.inputTokens, outputTokens |-> t.outputTokens,
               totalCostUSD |-> getTotalCostUSD(t), totalCostCZK |-> getTotalCostCZK(t)]]

----------------------------------------------------------------------------
(* report/json: the text functions of the machine-readable report.  Notes, *)
(* suggestions, categories and ids are strings, written as sequences of    *)
(* characters.                                                             *)

(* String.prototype.toUpperCase, on the letters the categories use *)
toUpperCase(s) ==
    [i \in 1..Len(s) |->
        IF \E k \in 1..Len(LowerChars) : LowerChars[k] = s[i]
        THEN UpperChars[CHOOSE k \in 1..Len(LowerChars) : LowerChars[k] = s[i]]
        ELSE s[i]]

(* slice(0, end) of a string or an array *)
slice(s, end) == SubSeq(s, 1, Min(end, Len(s)))

(* split(sep)[0]: the text before the first separator *)
splitFirst(s, sep) ==
    IF \E i \in 1..Len(s) : s[i] = sep
    THEN SubSeq(s, 1, (CHOOSE i \in 1..Len(s) :
                          s[i] = sep /\ \A k \in 1..(i - 1) : s[k] # sep) - 1)
    ELSE s

Digits == <<"0", "1", "2", "3", "4", "5", "6", "7", "8", "9">>

(* String(n) for a natural number *)
RECURSIVE toString(_)
toString(n) ==
    IF n < 10 THEN <<Digits[n + 1]>>
    ELSE toString(n \div 10) \o <<Digits[(n % 10) + 1]>>

(* String.prototype.padStart *)
RECURSIVE padStart(_, _, _)
padStart(s, targetLength, padString) ==
    IF Len(s) >= targetLength THEN s
    ELSE padStart(<<padString>> \o s, targetLength, padString)

(* Keywords indicating negative sentiment (problems, issues, risks) *)
NEGATIVE_KEYWORDS ==
    <<
      <<"c", "h", "y", "b", "U+00ED">>,
      <<"n", "e", "n", "U+00ED">>,
      <<"n", "e", "j", "a", "s", "n">>,
      <<"m", "a", "t", "o", "u", "c", "U+00ED">>,
      <<"z", "m", "a", "t", "e", "n">>,
      <<"p", "r", "o", "b", "l", "U+00E9", "m">>,
      <<"U+0161", "p", "a", "t", "n", "U+011B">>,
      <<"U+0161", "p", "a", "t", "n", "U+00FD">>,
      <<"n", "e", "f", "u", "n", "g", "u", "j", "e">>,
      <<"b", "r", "o", "k", "e", "n">>,
      <<"f", "a", "i", "l">>,
      <<"e", "r", "r", "o", "r">>,
      <<"n", "e", "l", "z", "e">>,
      <<"n", "e", "m", "U+016F", "U+017E", "e">>,
      <<"n", "e", "v", "i", "d", "U+00ED">>,
      <<"s", "c", "h", "U+00E1", "z", "U+00ED">>,
      <<"m", "i", "s", "s", "i", "n", "g">>,
      <<"u", "n", "c", "l", "e", "a", "r">>,
      <<"c", "o", "n", "f", "u", "s">>,
      <<"d", "i", "f", "f", "i", "c", "u", "l", "t">>,
      <<"h", "a", "r", "d", " ", "t", "o">>,
      <<"c", "a", "n", "n", "o", "t">>,
      <<"d", "o", "e", "s", "n", "'", "t">>,
      <<"w", "o", "n", "'", "t">>,
      <<"c", "o", "u", "l", "d", "n", "'", "t">>,
      <<"s", "h", "o", "u", "l", "d", "n", "'", "t">>,
      <<"r", "i", "s", "k">>,
      <<"d", "a", "n", "g", "e", "r">>,
      <<"w", "a", "r", "n", "i", "n", "g">>,
      <<"i", "s", "s", "u", "e">>,
      <<"b", "u", "g">>,
      <<"n", "e", "v", "U+00ED", "m">>,
      <<"d", "o", "n", "'", "t", " ", "k", "n", "o", "w">>,
      <<"u", "n", "s", "u", "r", "e">>,
      <<"u", "n", "c", "e", "r", "t", "a", "i", "n">>,
      <<"p", "U+0159", "e", "k", "U+00E1", "U+017E">>,
      <<"b", "l", "o", "k", "u", "j", "e">>,
      <<"b", "r", "U+00E1", "n", "U+00ED">>,
      <<"k", "o", "m", "p", "l", "i", "k">>,
      <<"s", "l", "o", "U+017E", "i", "t">>,
      <<"t", "U+011B", "U+017E", "k">>,
      <<"n", "e", "p", "o", "h", "o", "d", "l">>,
      <<"f", "r", "u", "s", "t", "r">>,
      <<"i", "r", "i", "t", "u", "j">>,
      <<"o", "t", "r", "a", "v", "u", "j">>,
      <<"z", "d", "r", "U+017E", "u", "j", "e">>,
      <<"p", "o", "m", "a", "l", "U+00FD">>,
      <<"s", "l", "o", "w">>,
      <<"l", "a", "g">>,
      <<"n", "e", "o", "U+010D", "e", "k", "U+00E1", "v">>,
      <<"u", "n", "e", "x", "p", "e", "c", "t">>,
      <<"a", "l", "e", " ">>,
      <<"v", "U+0161", "a", "k">>,
      <<"j", "e", "n", "U+017E", "e">>,
      <<"b", "o", "h", "u", "U+017E", "e", "l">>,
      <<"u", "n", "f", "o", "r", "t", "u", "n", "a", "t", "e", "l", "y">>,
      <<"c", "o", "u", "l", "d", " ", "b", "e", " ", "b", "e", "t", "t", "e", "r">>,
      <<"m", "o", "h", "l", " ", "b", "y", " ", "b", "U+00FD", "t">>,
      <<"m", "o", "h", "l", "o", " ", "b", "y">>,
      <<"w", "o", "u", "l", "d", " ", "b", "e", " ", "n", "i", "c", "e">>,
      <<"b", "y", " ", "s", "e", " ", "h", "o", "d", "i", "l", "o">>,
      <<"n", "e", "n", "U+00ED", " ", "v", "i", "d", "U+011B", "t">>,
      <<"s", "k", "r", "y", "t">>,
      <<"m", "a", "l", "U+00FD">>,
      <<"s", "m", "a", "l", "l">>,
      <<"t", "i", "n", "y">>,
      <<"h", "a", "r", "d", " ", "t", "o", " ", "s", "e", "e">>,
      <<"t", "U+011B", "U+017E", "k", "o", " ", "v", "i", "d", "U+011B", "t">>,
      <<"n", "e", "v", "U+00FD", "r", "a", "z", "n">>
    >>

(* Keywords indicating positive sentiment *)
POSITIVE_KEYWORDS ==
    <<
      <<"p", "U+0159", "e", "h", "l", "e", "d", "n">>,
      <<"j", "e", "d", "n", "o", "d", "u", "c", "h">>,
      <<"s", "n", "a", "d", "n", "U+00FD">>,
      <<"s", "r", "o", "z", "u", "m", "i", "t", "e", "l", "n">>,
      <<"j", "a", "s", "n", "U+00FD">>,
      <<"c", "l", "e", "a", "r">>,
      <<"e", "a", "s", "y">>,
      <<"s", "i", "m", "p", "l", "e">>,
      <<"i", "n", "t", "u", "i", "t", "i", "v", "e">>,
      <<"i", "n", "t", "u", "i", "t", "i", "v", "n">>,
      <<"d", "o", "b", "r", "U+00FD">>,
      <<"d", "o", "b", "U+0159", "e">>,
      <<"g", "o", "o", "d">>,
      <<"g", "r", "e", "a", "t">>,
      <<"e", "x", "c", "e", "l", "l", "e", "n", "t">>,
      <<"p", "e", "r", "f", "e", "c", "t">>,
      <<"v", "U+00FD", "b", "o", "r", "n">>,
      <<"s", "k", "v", "U+011B", "l">>,
      <<"p", "U+011B", "k", "n">>,
      <<"n", "i", "c", "e">>,
      <<"h", "e", "l", "p", "f", "u", "l">>,
      <<"u", "U+017E", "i", "t", "e", "U+010D", "n">>,
      <<"p", "r", "a", "k", "t", "i", "c", "k">>,
      <<"U+010D", "i", "t", "e", "l", "n">>,
      <<"r", "e", "a", "d", "a", "b", "l", "e">>,
      <<"v", "e", "l", "k", "U+00FD">>,
      <<"l", "a", "r", "g", "e">>,
      <<"v", "i", "s", "i", "b", "l", "e">>,
      <<"v", "i", "d", "i", "t", "e", "l", "n">>,
      <<"f", "u", "n", "g", "u", "j", "e">>,
      <<"w", "o", "r", "k", "s">>,
      <<"w", "o", "r", "k", "i", "n", "g">>,
      <<"s", "p", "r", "U+00E1", "v", "n", "U+011B">>,
      <<"c", "o", "r", "r", "e", "c", "t", "l", "y">>,
      <<"p", "r", "o", "p", "e", "r", "l", "y">>,
      <<"r", "y", "c", "h", "l">>,
      <<"f", "a", "s", "t">>,
      <<"q", "u", "i", "c", "k">>,
      <<"r", "e", "s", "p", "o", "n", "z", "i", "v", "n">>,
      <<"r", "e", "s", "p", "o", "n", "s", "i", "v", "e">>,
      <<"b", "e", "z", "p", "e", "U+010D", "n">>,
      <<"s", "e", "c", "u", "r", "e">>,
      <<"d", "U+00ED", "k", "y">>,
      <<"t", "h", "a", "n", "k", "s">>,
      <<"r", "U+00E1", "d">>,
      <<"g", "l", "a", "d">>,
      <<"h", "a", "p", "p", "y">>,
      <<"p", "l", "e", "a", "s", "e", "d">>,
      <<"s", "a", "t", "i", "s", "f", "i", "e", "d">>,
      <<"s", "p", "o", "k", "o", "j", "e">>
    >>

(* how many keywords of the list occur in the text *)
keywordScore(lower, keywords) ==
    Cardinality({k \in 1..Len(keywords) : includes(lower, keywords[k])})

(* the "but" constructions *)
hasContrast(lower) ==
    \/ includes(lower, <<" ", "a", "l", "e", " ">>)
    \/ includes(lower, <<" ", "v", "U+0161", "a", "k", " ">>)
    \/ includes(lower, <<",", " ", "b", "u", "t", " ">>)

(* A variant of classifyNoteSentiment without the check for "but" *)
classifyByScoreOnly(note) ==
    LET lower == toLowerCase(note)
        negativeScore == keywordScore(lower, NEGATIVE_KEYWORDS)
        positiveScore == keywordScore(lower, POSITIVE_KEYWORDS)
    IN IF negativeScore > positiveScore THEN "negative"
       ELSE IF positiveScore > negativeScore THEN "positive"
       ELSE IF negativeScore = 0 /\ positiveScore = 0 THEN "neutral"
       ELSE IF negativeScore > 0 THEN "negative" ELSE "neutral"

classifyNoteSentiment(note) ==
    LET lower == toLowerCase(note)
        negativeScore == keywordScore(lower, NEGATIVE_KEYWORDS)
        positiveScore == keywordScore(lower, POSITIVE_KEYWORDS)
    IN IF hasContrast(lower) /\ negativeScore > 0 THEN "negative"
       ELSE IF negativeScore > positiveScore THEN "negative"
       ELSE IF positiveScore > negativeScore THEN "positive"
       ELSE IF negativeScore = 0 /\ positiveScore = 0 THEN "neutral"
       ELSE IF negativeScore > 0 THEN "negative" ELSE "neutral"

(* nothing detected yet *)
NoDetection == [category |-> <<>>, severity |-> ""]

(* whether one of the texts occurs in the lower-cased text *)
includesAny(lower, texts) == \E k \in 1..Len(texts) : includes(lower, texts[k])

(* The categories in the order detectCategory tries them, each with the    *)
(* texts of which one must occur and the texts that must all occur         *)
CategoryKeywords ==
    <<[category |-> <<"f", "o", "r", "m">>, any |-> <<<<"f", "o", "r", "m">>, <<"i", "n", "p", "u", "t">>, <<"f", "i", "e", "l", "d">>, <<"p", "o", "l", "U+00ED", "U+010D", "k">>, <<"f", "o", "r", "m", "u", "l", "U+00E1", "U+0159">>>>, all |-> <<>>],
      [category |-> <<"n", "a", "v", "i", "g", "a", "t", "i", "o", "n">>, any |-> <<<<"n", "a", "v", "i", "g", "a", "t", "i", "o", "n">>, <<"m", "e", "n", "u">>, <<"l", "i", "n", "k">>, <<"n", "a", "v", "i", "g", "a", "c">>>>, all |-> <<>>],
      [category |-> <<"p", "e", "r", "f", "o", "r", "m", "a", "n", "c", "e">>, any |-> <<<<"l", "o", "a", "d", "i", "n", "g">>, <<"s", "l", "o", "w">>, <<"p", "e", "r", "f", "o", "r", "m", "a", "n", "c", "e">>, <<"p", "o", "m", "a", "l">>, <<"n", "a", "U+010D", "U+00ED", "t">>>>, all |-> <<>>],
      [category |-> <<"a", "1", "1", "y">>, any |-> <<<<"a", "c", "c", "e", "s", "s", "i", "b", "i", "l", "i", "t", "y">>, <<"a", "1", "1", "y">>, <<"s", "c", "r", "e", "e", "n", " ", "r", "e", "a", "d", "e", "r">>, <<"p", "U+0159", "U+00ED", "s", "t", "u", "p", "n", "o", "s", "t">>>>, all |-> <<>>],
      [category |-> <<"o", "n", "b", "o", "a", "r", "d", "i", "n", "g">>, any |-> <<<<"o", "n", "b", "o", "a", "r", "d", "i", "n", "g">>, <<"r", "e", "g", "i", "s", "t", "r", "a", "t", "i", "o", "n">>, <<"s", "i", "g", "n", " ", "u", "p">>, <<"r", "e", "g", "i", "s", "t", "r", "a", "c">>>>, all |-> <<<<"v", "y", "t", "v", "o", "U+0159">>, <<"U+00FA", "U+010D", "e", "t">>>>],
      [category |-> <<"c", "o", "p", "y">>, any |-> <<<<"t", "e", "x", "t">>, <<"l", "a", "b", "e", "l">>, <<"c", "o", "p", "y">>, <<"p", "l", "a", "c", "e", "h", "o", "l", "d", "e", "r">>, <<"p", "o", "p", "i", "s">>, <<"n", "U+00E1", "p", "i", "s">>>>, all |-> <<>>],
      [category |-> <<"v", "a", "l", "i", "d", "a", "t", "i", "o", "n">>, any |-> <<<<"e", "r", "r", "o", "r">>, <<"v", "a", "l", "i", "d", "a", "t", "i", "o", "n">>, <<"c", "h", "y", "b">>, <<"v", "a", "l", "i", "d", "a", "c">>>>, all |-> <<>>],
      [category |-> <<"f", "e", "e", "d", "b", "a", "c", "k">>, any |-> <<<<"f", "e", "e", "d", "b", "a", "c", "k">>, <<"c", "o", "n", "f", "i", "r", "m">>, <<"p", "o", "t", "v", "r">>, <<"z", "p", "U+011B", "t", "n", "U+00E1", " ", "v", "a", "z", "b", "a">>>>, all |-> <<>>],
      [category |-> <<"s", "e", "c", "u", "r", "i", "t", "y">>, any |-> <<<<"h", "e", "s", "l", "o">>, <<"p", "a", "s", "s", "w", "o", "r", "d">>>>, all |-> <<>>],
      [category |-> <<"i", "n", "t", "e", "r", "a", "c", "t", "i", "o", "n">>, any |-> <<<<"b", "u", "t", "t", "o", "n">>, <<"t", "l", "a", "U+010D", "U+00ED", "t", "k", "o">>, <<"k", "l", "i", "k">>>>, all |-> <<>>]>>

categoryMatches(lower, entry) ==
    \/ includesAny(lower, entry.any)
    \/ entry.all # <<>> /\ \A k \in 1..Len(entry.all) : includes(lower, entry.all[k])

(* A variant of detectCategory in which the last matching category wins *)
detectCategoryLastWins(text) ==
    LET lower == toLowerCase(text)
        matching == {k \in 1..Len(CategoryKeywords) : categoryMatches(lower, CategoryKeywords[k])}
    IN IF matching = {} THEN <<"u", "x">>
       ELSE CategoryKeywords[CHOOSE k \in matching : \A j \in matching : j <= k].category

detectCategory(text) ==
    LET lower == toLowerCase(text)
    IN IF includesAny(lower, <<<<"f", "o", "r", "m">>, <<"i", "n", "p", "u", "t">>, <<"f", "i", "e", "l", "d">>, <<"p", "o", "l", "U+00ED", "U+010D", "k">>, <<"f", "o", "r", "m", "u", "l", "U+00E1", "U+0159">>>>)
       THEN <<"f", "o", "r", "m">>
       ELSE IF includesAny(lower, <<<<"n", "a", "v", "i", "g", "a", "t", "i", "o", "n">>, <<"m", "e", "n", "u">>, <<"l", "i", "n", "k">>, <<"n", "a", "v", "i", "g", "a", "c">>>>)
       THEN <<"n", "a", "v", "i", "g", "a", "t", "i", "o", "n">>
       ELSE IF includesAny(lower, <<<<"l", "o", "a", "d", "i", "n", "g">>, <<"s", "l", "o", "w">>, <<"p", "e", "r", "f", "o", "r", "m", "a", "n", "c", "e">>, <<"p", "o", "m", "a", "l">>, <<"n", "a", "U+010D", "U+00ED", "t">>>>)
       THEN <<"p", "e", "r", "f", "o", "r", "m", "a", "n", "c", "e">>
       ELSE IF includesAny(lower, <<<<"a", "c", "c", "e", "s", "s", "i", "b", "i", "l", "i", "t", "y">>, <<"a", "1", "1", "y">>, <<"s", "c", "r", "e", "e", "n", " ", "r", "e", "a", "d", "e", "r">>, <<"p", "U+0159", "U+00ED", "s", "t", "u", "p", "n", "o", "s", "t">>>>)
       THEN <<"a", "1", "1", "y">>
       ELSE IF
               \/ includesAny(lower, <<<<"o", "n", "b", "o", "a", "r", "d", "i", "n", "g">>, <<"r", "e", "g", "i", "s", "t", "r", "a", "t", "i", "o", "n">>, <<"s", "i", "g", "n", " ", "u", "p">>, <<"r", "e", "g", "i", "s", "t", "r", "a", "c">>>>)
               \/ (includes(lower, <<"v", "y", "t", "v", "o", "U+0159">>) /\ includes(lower, <<"U+00FA", "U+010D", "e", "t">>))
       THEN <<"o", "n", "b", "o", "a", "r", "d", "i", "n", "g">>
       ELSE IF includesAny(lower, <<<<"t", "e", "x", "t">>, <<"l", "a", "b", "e", "l">>, <<"c", "o", "p", "y">>, <<"p", "l", "a", "c", "e", "h", "o", "l", "d", "e", "r">>, <<"p", "o", "p", "i", "s">>, <<"n", "U+00E1", "p", "i", "s">>>>)
       THEN <<"c", "o", "p", "y">>
       ELSE IF includesAny(lower, <<<<"e", "r", "r", "o", "r">>, <<"v", "a", "l", "i", "d", "a", "t", "i", "o", "n">>, <<"c", "h", "y", "b">>, <<"v", "a", "l", "i", "d", "a", "c">>>>)
       THEN <<"v", "a", "l", "i", "d", "a", "t", "i", "o", "n">>
       ELSE IF includesAny(lower, <<<<"f", "e", "e", "d", "b", "a", "c", "k">>, <<"c", "o", "n", "f", "i", "r", "m">>, <<"p", "o", "t", "v", "r">>, <<"z", "p", "U+011B", "t", "n", "U+00E1", " ", "v", "a", "z", "b", "a">>>>)
       THEN <<"f", "e", "e", "d", "b", "a", "c", "k">>
       ELSE IF includesAny(lower, <<<<"h", "e", "s", "l", "o">>, <<"p", "a", "s", "s", "w", "o", "r", "d">>>>)
       THEN <<"s", "e", "c", "u", "r", "i", "t", "y">>
       ELSE IF includesAny(lower, <<<<"b", "u", "t", "t", "o", "n">>, <<"t", "l", "a", "U+010D", "U+00ED", "t", "k", "o">>, <<"k", "l", "i", "k">>>>)
       THEN <<"i", "n", "t", "e", "r", "a", "c", "t", "i", "o", "n">>
       ELSE <<"u", "x">>

(* The keyword lists of the severity rules *)
HighKeywords == <<<<"c", "r", "i", "t", "i", "c", "a", "l">>, <<"b", "r", "o", "k", "e", "n">>, <<"c", "r", "a", "s", "h">>, <<"n", "e", "f", "u", "n", "g", "u", "j", "e">>, <<"n", "e", "l", "z", "e">>, <<"b", "l", "o", "k", "u", "j", "e">>, <<"c", "a", "n", "n", "o", "t">>, <<"i", "m", "p", "o", "s", "s", "i", "b", "l", "e">>>>
OnboardingConfusionKeywords == <<<<"z", "m", "a", "t", "e", "n">>, <<"c", "o", "n", "f", "u", "s">>, <<"n", "e", "v", "U+00ED", "m">>, <<"n", "e", "j", "a", "s", "n">>, <<"n", "e", "o", "U+010D", "e", "k", "U+00E1", "v">>>>
PasswordKeywords == <<<<"h", "e", "s", "l", "o">>, <<"p", "a", "s", "s", "w", "o", "r", "d">>>>
RuleGapKeywords == <<<<"c", "h", "y", "b", "U+00ED">>, <<"m", "i", "s", "s", "i", "n", "g">>, <<"n", "e", "n", "U+00ED">>, <<"n", "e", "v", "U+00ED", "m">>, <<"p", "o", "U+017E", "a", "d", "a", "v">>, <<"p", "r", "a", "v", "i", "d", "l">>>>
GeneralMediumKeywords == <<<<"c", "o", "n", "f", "u", "s">>, <<"u", "n", "c", "l", "e", "a", "r">>, <<"m", "i", "s", "s", "i", "n", "g">>, <<"z", "m", "a", "t", "e", "n">>, <<"n", "e", "j", "a", "s", "n">>, <<"c", "h", "y", "b", "U+00ED">>, <<"m", "a", "t", "o", "u", "c", "U+00ED">>, <<"t", "U+011B", "U+017E", "k">>, <<"k", "o", "m", "p", "l", "i", "k">>>>

(* A variant of detectSeverity that tries the medium rules first *)
detectSeverityMediumFirst(text, category) ==
    LET lower == toLowerCase(text)
    IN IF \/ category = <<"o", "n", "b", "o", "a", "r", "d", "i", "n", "g">> /\ includesAny(lower, OnboardingConfusionKeywords)
          \/ includesAny(lower, PasswordKeywords) /\ includesAny(lower, RuleGapKeywords)
          \/ includesAny(lower, GeneralMediumKeywords)
       THEN "medium"
       ELSE IF includesAny(lower, HighKeywords) THEN "high" ELSE "low"

detectSeverity(text, category) ==
    LET lower == toLowerCase(text)
    IN IF includesAny(lower, <<<<"c", "r", "i", "t", "i", "c", "a", "l">>, <<"b", "r", "o", "k", "e", "n">>, <<"c", "r", "a", "s", "h">>, <<"n", "e", "f", "u", "n", "g", "u", "j", "e">>, <<"n", "e", "l", "z", "e">>,
                               <<"b", "l", "o", "k", "u", "j", "e">>, <<"c", "a", "n", "n", "o", "t">>, <<"i", "m", "p", "o", "s", "s", "i", "b", "l", "e">>>>)
       THEN "high"
       ELSE IF /\ category = <<"o", "n", "b", "o", "a", "r", "d", "i", "n", "g">>
               /\ includesAny(lower, <<<<"z", "m", "a", "t", "e", "n">>, <<"c", "o", "n", "f", "u", "s">>, <<"n", "e", "v", "U+00ED", "m">>, <<"n", "e", "j", "a", "s", "n">>, <<"n", "e", "o", "U+010D", "e", "k", "U+00E1", "v">>>>)
       THEN "medium"
       ELSE IF /\ includesAny(lower, <<<<"h", "e", "s", "l", "o">>, <<"p", "a", "s", "s", "w", "o", "r", "d">>>>)
               /\ includesAny(lower, <<<<"c", "h", "y", "b", "U+00ED">>, <<"m", "i", "s", "s", "i", "n", "g">>, <<"n", "e", "n", "U+00ED">>, <<"n", "e", "v", "U+00ED", "m">>, <<"p", "o", "U+017E", "a", "d", "a", "v">>,
                                       <<"p", "r", "a", "v", "i", "d", "l">>>>)
       THEN "medium"
       ELSE IF includesAny(lower, <<<<"c", "o", "n", "f", "u", "s">>, <<"u", "n", "c", "l", "e", "a", "r">>, <<"m", "i", "s", "s", "i", "n", "g">>, <<"z", "m", "a", "t", "e", "n">>, <<"n", "e", "j", "a", "s", "n">>,
                                    <<"c", "h", "y", "b", "U+00ED">>, <<"m", "a", "t", "o", "u", "c", "U+00ED">>, <<"t", "U+011B", "U+017E", "k">>, <<"k", "o", "m", "p", "l", "i", "k">>>>)
       THEN "medium"
       ELSE "low"

(* A variant of generateIssueId that numbers from the index itself *)
generateIssueIdFromZero(category, index) ==
    <<"U", "X", "-">> \o slice(toUpperCase(category), 3) \o <<"-">> \o padStart(toString(index), 3, "0")

generateIssueId(category, index) ==
    <<"U", "X", "-">> \o slice(toUpperCase(category), 3) \o <<"-">> \o padStart(toString(index + 1), 3, "0")

generatePositiveId(category, index) ==
    <<"O", "K", "-">> \o slice(toUpperCase(category), 3) \o <<"-">> \o padStart(toString(index + 1), 3, "0")

(* One acceptance criterion.  The fixed texts are written without their    *)
(* diacritics; element is the text an "add ..." criterion quotes.          *)
criterion(text) == [text |-> text, element |-> <<>>]

isSpace(c) == c \in {" ", "\t", "\n"}

(* String.prototype.trim *)
RECURSIVE trim(_)
trim(s) ==
    IF s = <<>> THEN s
    ELSE IF isSpace(s[1]) THEN trim(Tail(s))
    ELSE IF isSpace(s[Len(s)]) THEN trim(SubSeq(s, 1, Len(s) - 1))
    ELSE s

(* the longest run of characters from position i on that satisfy the test *)
RECURSIVE spacesFrom(_, _)
spacesFrom(s, i) ==
    IF i <= Len(s) /\ isSpace(s[i]) THEN 1 + spacesFrom(s, i + 1) ELSE 0

RECURSIVE plainFrom(_, _)
plainFrom(s, i) ==
    IF i <= Len(s) /\ s[i] \notin {",", "."} THEN 1 + plainFrom(s, i + 1) ELSE 0

(* issue.match(/word\s+([^,\.]+)/i)?.[1]: <<the captured text>> of the     *)
(* leftmost match, or Undefined.  \s+ takes every space it can and gives   *)
(* one back when nothing else is left for the group.                       *)
matchAfter(text, word) ==
    LET lower == toLowerCase(text)
        n == Len(word)
        matchesAt(i) ==
            /\ i + n + 1 <= Len(text)
            /\ SubSeq(lower, i, i + n - 1) = word
            /\ isSpace(text[i + n])
            /\ text[i + n + 1] \notin {",", "."}
    IN IF \E i \in 1..Len(text) : matchesAt(i)
       THEN LET i == CHOOSE k \in 1..Len(text) :
                        matchesAt(k) /\ \A l \in 1..(k - 1) : ~matchesAt(l)
                spaces == spacesFrom(text, i + n)
                start == IF plainFrom(text, i + n + spaces) > 0
                         THEN i + n + spaces ELSE i + n + spaces - 1
            IN <<SubSeq(text, start, start + plainFrom(text, start) - 1)>>
       ELSE Undefined

(* if (criteria.length === 0) { ... }: the later templates apply only when  *)
(* the earlier ones gave nothing                                           *)
whenEmpty(criteria, later) == IF Len(criteria) = 0 THEN later ELSE criteria

(* the criteria of the keyword-triggered templates, before the fallback    *)
(* that ensures two criteria and before the limit                          *)
templateCriteria(issue, category) ==
    LET lower == toLowerCase(issue)
        password ==
            IF includesAny(lower, <<<<"h", "e", "s", "l", "o">>, <<"p", "a", "s", "s", "w", "o", "r", "d">>>>)
            THEN (IF includesAny(lower, <<<<"c", "h", "y", "b", "U+00ED">>, <<"p", "o", "U+017E", "a", "d", "a", "v">>, <<"p", "r", "a", "v", "i", "d", "l">>, <<"n", "e", "v", "U+00ED", "m">>>>)
                  THEN <<criterion("Pod polem hesla je zobrazen text s pozadavky (napr. 'min. 8 znaku, 1 cislo')"),
                         criterion("Pri psani hesla se dynamicky zobrazuje indikator sily (slabe/stredni/silne)"),
                         criterion("Nesplnene pozadavky jsou zvyrazneny cervene pred odeslanim formulare")>>
                  ELSE <<>>)
                 \o
                 (IF includesAny(lower, <<<<"n", "e", "v", "i", "d", "U+00ED", "m">>, <<"t", "e", "U+010D", "k">>, <<"s", "k", "r", "y", "t">>>>)
                  THEN <<criterion("U pole hesla je ikona oka pro prepnuti viditelnosti"),
                         criterion("Po kliknuti na ikonu se heslo zobrazi jako citelny text")>>
                  ELSE <<>>)
            ELSE <<>>
        form ==
            IF category = <<"f", "o", "r", "m">> \/ includesAny(lower, <<<<"f", "o", "r", "m", "u", "l", "U+00E1", "U+0159">>, <<"p", "o", "l", "U+00ED", "U+010D", "k">>, <<"i", "n", "p", "u", "t">>>>)
            THEN (IF includesAny(lower, <<<<"p", "o", "v", "i", "n", "U+043D">>, <<"r", "e", "q", "u", "i", "r", "e", "d">>, <<"h", "v", "U+011B", "z", "d", "i", "U+010D", "k">>>>)
                  THEN <<criterion("Povinna pole jsou oznacena hvezdickou (*) nebo textem 'povinne'"),
                         criterion("Pri pokusu o odeslani prazdneho povinneho pole se zobrazi chybova hlaska")>>
                  ELSE <<>>)
                 \o
                 (IF includesAny(lower, <<<<"v", "a", "l", "i", "d", "a", "c">>, <<"c", "h", "y", "b">>>>)
                  THEN <<criterion("Chybove hlasky se zobrazuji primo u prislusneho pole"),
                         criterion("Text chyby jasne rika, co je spatne a jak to opravit")>>
                  ELSE <<>>)
            ELSE <<>>
        onboarding ==
            IF category = <<"o", "n", "b", "o", "a", "r", "d", "i", "n", "g">> \/ includes(lower, <<"r", "e", "g", "i", "s", "t", "r", "a", "c">>)
            THEN (IF includesAny(lower, <<<<"u", "v", "U+00ED", "t", "a", "c", "U+00ED">>, <<"p", "o", "t", "v", "r">>, <<"w", "e", "l", "c", "o", "m", "e">>, <<"n", "e", "o", "U+010D", "e", "k", "U+00E1", "v">>>>)
                  THEN <<criterion("Po uspesne registraci se zobrazi uvitaci zprava s textem 'Ucet byl vytvoren'"),
                         criterion("Uvitaci zprava obsahuje jmeno uzivatele"),
                         criterion("Novinka/promo okno se nezobrazuje ihned po registraci, ale az po zavreni uvitani")>>
                  ELSE <<>>)
                 \o
                 (IF includesAny(lower, <<<<"s", "l", "a", "n", "g">>, <<"h", "a", "n", "t", "U+00FD", "r", "k">>, <<"j", "a", "z", "y", "k">>, <<"t", "e", "x", "t">>>>)
                  THEN <<criterion("Vsechny texty v UI jsou srozumitelne pro uzivatele 60+"),
                         criterion("Neformalni vyrazy jsou nahrazeny standardnim jazykem")>>
                  ELSE <<>>)
            ELSE <<>>
        visibility ==
            IF includesAny(lower, <<<<"m", "a", "l", "U+00FD">>, <<"s", "m", "a", "l", "l">>, <<"v", "i", "d", "U+011B", "t">>, <<"n", "e", "v", "U+00FD", "r", "a", "z", "n">>>>)
            THEN <<criterion("Element ma minimalni velikost 44x44px (dotykova oblast)"),
                   criterion("Text ma minimalni velikost 16px"),
                   criterion("Kontrastni pomer textu vuci pozadi je min. 4.5:1")>>
            ELSE <<>>
        feedback ==
            IF category = <<"f", "e", "e", "d", "b", "a", "c", "k">> \/ includesAny(lower, <<<<"z", "p", "U+011B", "t", "n", "U+00E1">>, <<"f", "e", "e", "d", "b", "a", "c", "k">>>>)
            THEN <<criterion("Po kazde uzivatelske akci je viditelna odezva do 100ms"),
                   criterion("Uspesne akce jsou potvrzeny zelenou barvou nebo ikonou OK")>>
            ELSE <<>>
        navigation ==
            IF category = <<"n", "a", "v", "i", "g", "a", "t", "i", "o", "n">>
            THEN <<criterion("Odkaz je vizualne odlisen od okolniho textu (barva, podtrzeni)"),
                   criterion("Po najeti mysi se zmeni kurzor na pointer")>>
            ELSE <<>>
        what ==
            IF matchAfter(issue, <<"p", "U+0159", "i", "d", "a", "t">>) # Undefined /\ matchAfter(issue, <<"p", "U+0159", "i", "d", "a", "t">>)[1] # <<>>
            THEN matchAfter(issue, <<"p", "U+0159", "i", "d", "a", "t">>)
            ELSE matchAfter(issue, <<"a", "d", "d">>)
        add ==
            IF includesAny(lower, <<<<"p", "U+0159", "i", "d", "a", "t">>, <<"a", "d", "d">>>>) /\ what # Undefined /\ what[1] # <<>>
            THEN <<[text |-> "Element je pritomen na strance", element |-> trim(what[1])],
                   [text |-> "Element je viditelny bez scrollovani", element |-> trim(what[1])]>>
            ELSE <<>>
        show ==
            IF includesAny(lower, <<<<"z", "o", "b", "r", "a", "z", "i", "t">>, <<"s", "h", "o", "w">>, <<"d", "i", "s", "p", "l", "a", "y">>>>)
            THEN <<criterion("Informace je viditelna ihned po nacteni stranky"),
                   criterion("Informace je umistena v kontextu relevantniho prvku")>>
            ELSE <<>>
    IN whenEmpty(password \o form \o onboarding \o visibility \o feedback \o navigation,
                 add \o show)

(* the two generic criteria that ensure at least two *)
genericCriteria ==
    <<criterion("Zmena je viditelna na strance bez nutnosti refreshe"),
      criterion("Funkcnost je overena manualnim testem")>>

(* if (criteria.length < 2) { criteria.push(..., ...) } *)
ensureTwo(criteria) == IF Len(criteria) < 2 THEN criteria \o genericCriteria ELSE criteria

(* A variant of generateAcceptanceCriteria without the limit *)
generateUnlimitedCriteria(issue, category) ==
    ensureTwo(templateCriteria(issue, category))

generateAcceptanceCriteria(issue, category) ==
    slice(ensureTwo(templateCriteria(issue, category)), 5)

(* getTarget: the element ids of the inputs (joined by ", " in the code),  *)
(* else the elementId, else null (<<>>)                                    *)
getTarget(step) ==
    IF step.action.inputs # <<>>
    THEN [i \in 1..Len(step.action.inputs) |-> step.action.inputs[i].elementId]
    ELSE IF step.action.elementId # "" THEN <<step.action.elementId>> ELSE <<>>

(* A variant of mapResult that keeps the orchestrator's names *)
mapResultUnchanged(result) ==
    CASE result = "met" -> "met"
      [] result = "partial" -> "partial"
      [] result = "surprised" -> "surprised"
      [] result = "unmet" -> "unmet"
      [] OTHER -> "failed"

mapResult(result) ==
    CASE result = "met" -> "met"
      [] result = "partial" -> "partial"
      [] result = "surprised" -> "surprised"
      [] result = "unmet" -> "failed"
      [] OTHER -> "failed"

----------------------------------------------------------------------------
(* report/json: buildJsonReport *)

(* the lists and the two counters before the first step *)
NoLists ==
    [issues |-> <<>>, positives |-> <<>>, observations |-> <<>>,
     issueIndex |-> 0, positiveIndex |-> 0]

(* texts.find(t => detectCategory(t) === category): the text, or Undefined *)
findCategory(texts, category) ==
    IF \E k \in 1..Len(texts) : detectCategory(texts[k]) = category
    THEN <<texts[CHOOSE k \in 1..Len(texts) :
                    /\ detectCategory(texts[k]) = category
                    /\ \A l \in 1..(k - 1) : detectCategory(texts[l]) # category]>>
    ELSE Undefined

(* a || b || c on strings: the first one that is present and not empty *)
firstTruthy(candidates, default) ==
    IF \E k \in 1..Len(candidates) : candidates[k] # Undefined /\ candidates[k][1] # <<>>
    THEN candidates[CHOOSE k \in 1..Len(candidates) :
                       /\ candidates[k] # Undefined /\ candidates[k][1] # <<>>
                       /\ \A l \in 1..(k - 1) :
                             candidates[l] = Undefined \/ candidates[l][1] = <<>>][1]
    ELSE default

(* issues.some(...): an issue whose title contains the start of the text,  *)
(* or whose title's start the text contains                                *)
alreadyExists(issues, text) ==
    \E k \in 1..Len(issues) :
        LET title == toLowerCase(issues[k].title)
            lower == toLowerCase(text)
        IN includes(title, slice(lower, 30)) \/ includes(lower, slice(title, 30))

(* the body of the loop over the notes of a step *)
processNote(lists, step, note) ==
    IF Len(note) < 15 THEN lists
    ELSE LET sentiment == classifyNoteSentiment(note)
             category == detectCategory(note)
             suggestions == step.evaluation.suggestions
         IN CASE sentiment = "negative" ->
                   [lists EXCEPT
                      !.issues = Append(@,
                          [id |-> generateIssueId(category, lists.issueIndex),
                           severity |-> detectSeverity(note, category),
                           category |-> category,
                           title |-> slice(splitFirst(note, "."), 100),
                           evidence |-> [step |-> step.stepNumber, description |-> note],
                           recommendation |->
                               firstTruthy(<<findCategory(suggestions, category),
                                             IF suggestions # <<>> THEN <<suggestions[1]>>
                                             ELSE Undefined>>,
                                           <<"I", "n", "v", "e", "s", "t", "i", "g", "a", "t", "e", " ", "a", "n", "d", " ", "a", "d", "d", "r", "e", "s", "s", " ", "t", "h", "i", "s", " ", "i", "s", "s", "u", "e">>),
                           acceptance_criteria |-> generateAcceptanceCriteria(note, category)]),
                      !.issueIndex = @ + 1]
              [] sentiment = "positive" ->
                   [lists EXCEPT
                      !.positives = Append(@,
                          [id |-> generatePositiveId(category, lists.positiveIndex),
                           category |-> category,
                           title |-> slice(splitFirst(note, "."), 100),
                           evidence |-> [step |-> step.stepNumber, description |-> note]]),
                      !.positiveIndex = @ + 1]
              [] OTHER ->
                   [lists EXCEPT
                      !.observations = Append(@, [step |-> step.stepNumber, text |-> note])]

(* the body of the loop over the suggestions of a step *)
processSuggestion(lists, step, suggestion) ==
    IF Len(suggestion) < 20 \/ alreadyExists(lists.issues, suggestion) THEN lists
    ELSE LET category == detectCategory(suggestion)
         IN [lists EXCEPT
               !.issues = Append(@,
                   [id |-> generateIssueId(category, lists.issueIndex),
                    severity |-> detectSeverity(suggestion, category),
                    category |-> category,
                    title |-> slice(splitFirst(suggestion, "."), 100),
                    evidence |-> [step |-> step.stepNumber,
                                  description |-> <<"S", "u", "g", "g", "e", "s", "t", "i", "o", "n", " ", "f", "r", "o", "m", " ", "e", "v", "a", "l", "u", "a", "t", "i", "o", "n", ":", " ">> \o suggestion],
                    recommendation |-> suggestion,
                    acceptance_criteria |-> generateAcceptanceCriteria(suggestion, category)]),
               !.issueIndex = @ + 1]

(* the body of the loop over report.summary.issuesFound *)
processSummaryIssue(lists, report_, issue) ==
    IF alreadyExists(lists.issues, issue) \/ ~(Len(issue) > 20) THEN lists
    ELSE LET category == detectCategory(issue)
         IN [lists EXCEPT
               !.issues = Append(@,
                   [id |-> generateIssueId(category, lists.issueIndex),
                    severity |-> detectSeverity(issue, category),
                    category |-> category,
                    title |-> slice(issue, 100),
                    evidence |-> [step |-> 0, description |-> issue],
                    recommendation |->
                        firstTruthy(<<findCategory(report_.summary.improvements, category)>>,
                                    <<"A", "d", "d", "r", "e", "s", "s", " ", "t", "h", "i", "s", " ", "U", "X", " ", "i", "s", "s", "u", "e">>),
                    acceptance_criteria |-> generateAcceptanceCriteria(issue, category)]),
               !.issueIndex = @ + 1]

(* A variant of processNotes that stops before the last note of the step *)
RECURSIVE processNotesButLast(_, _, _)
processNotesButLast(lists, step, notes) ==
    IF Len(notes) <= 1 THEN lists
    ELSE processNotesButLast(processNote(lists, step, Head(notes)), step, Tail(notes))

RECURSIVE processNotes(_, _, _)
processNotes(lists, step, notes) ==
    IF notes = <<>> THEN lists
    ELSE processNotes(processNote(lists, step, Head(notes)), step, Tail(notes))

RECURSIVE processSuggestions(_, _, _)
processSuggestions(lists, step, suggestions) ==
    IF suggestions = <<>> THEN lists
    ELSE processSuggestions(processSuggestion(lists, step, Head(suggestions)), step,
                            Tail(suggestions))

(* the loop over report.steps: the notes of a step, then its suggestions *)
RECURSIVE processSteps(_, _)
processSteps(lists, stepList) ==
    IF stepList = <<>> THEN lists
    ELSE LET step == Head(stepList)
             afterNotes == processNotes(lists, step, step.evaluation.notes)
         IN processSteps(processSuggestions(afterNotes, step, step.evaluation.suggestions),
                         Tail(stepList))

RECURSIVE processSummaryIssues(_, _, _)
processSummaryIssues(lists, report_, issuesFound) ==
    IF issuesFound = <<>> THEN lists
    ELSE processSummaryIssues(processSummaryIssue(lists, report_, Head(issuesFound)),
                              report_, Tail(issuesFound))

(* the three loops: issues, positives and observations in encounter order *)
classifyReport(report_) ==
    processSummaryIssues(processSteps(NoLists, report_.steps), report_,
                         report_.summary.issuesFound)

(* A variant of uniqueIssues that looks for the start of the new title in  *)
(* the titles kept, and not the other way round                            *)
RECURSIVE uniqueIssuesOneWay(_, _)
uniqueIssuesOneWay(acc, issues) ==
    IF issues = <<>> THEN acc
    ELSE LET issueLower == toLowerCase(Head(issues).title)
             isDuplicate ==
                 \E k \in 1..Len(acc) :
                     includes(toLowerCase(acc[k].title), slice(issueLower, 20))
         IN uniqueIssuesOneWay(IF isDuplicate THEN acc ELSE Append(acc, Head(issues)),
                               Tail(issues))

(* the reduce that drops an issue whose title overlaps an earlier title *)
RECURSIVE uniqueIssues(_, _)
uniqueIssues(acc, issues) ==
    IF issues = <<>> THEN acc
    ELSE LET issueLower == toLowerCase(Head(issues).title)
             isDuplicate ==
                 \E k \in 1..Len(acc) :
                     LET existingLower == toLowerCase(acc[k].title)
                     IN \/ includes(existingLower, slice(issueLower, 20))
                        \/ includes(issueLower, slice(existingLower, 20))
         IN uniqueIssues(IF isDuplicate THEN acc ELSE Append(acc, Head(issues)), Tail(issues))

(* report.steps.map(...) *)
jsonSteps(stepList) ==
    [i \in 1..Len(stepList) |->
        [step |-> stepList[i].stepNumber,
         action |-> stepList[i].action.action,
         target |-> getTarget(stepList[i]),
         result |-> mapResult(stepList[i].evaluation.result),
         notes |-> slice(stepList[i].evaluation.notes, 5)]]

(* steps.filter(s => s.result === ...).length *)
countResults(jsteps, results) ==
    Cardinality({i \in 1..Len(jsteps) : jsteps[i].result \in results})

(* A variant of the returned object that holds the lists in full *)
uncappedReport(report_, lists, jsteps) ==
       [intent |-> report_.config.intent,
        duration_ms |-> report_.endTime - report_.startTime,
        intuitiveness_score |-> report_.summary.intuitivenessScore,
        steps |-> jsteps,
        issues |-> uniqueIssues(<<>>, lists.issues),
        positives |-> lists.positives,
        observations |-> lists.observations,
        summary |-> [total_steps |-> Len(jsteps),
                     met |-> countResults(jsteps, {"met"}),
                     partial |-> countResults(jsteps, {"partial"}),
                     failed |-> countResults(jsteps, {"failed", "surprised"})]]

(* A variant of buildJsonReport that emits the lists in full *)
buildJsonReportUncapped(report_) ==
    uncappedReport(report_, classifyReport(report_), jsonSteps(report_.steps))

(* the returned object, from the three lists and the mapped steps; run_id, *)
(* url, persona and artifacts are left out                                 *)
jsonReport(report_, lists, jsteps) ==
       [intent |-> report_.config.intent,
        duration_ms |-> report_.endTime - report_.startTime,
        intuitiveness_score |-> report_.summary.intuitivenessScore,
        steps |-> jsteps,
        issues |-> slice(uniqueIssues(<<>>, lists.issues), 20),
        positives |-> slice(lists.positives, 10),
        observations |-> slice(lists.observations, 10),
        summary |-> [total_steps |-> Len(jsteps),
                     met |-> countResults(jsteps, {"met"}),
                     partial |-> countResults(jsteps, {"partial"}),
                     failed |-> countResults(jsteps, {"failed", "surprised"})]]

buildJsonReport(report_) ==
    jsonReport(report_, classifyReport(report_), jsonSteps(report_.steps))

----------------------------------------------------------------------------
(* utils/retry: withRetry.  An absent option is Undefined, a given one is  *)
(* <<the value>>.  What fn throws is an Error or a string.                 *)

DEFAULT_OPTIONS == [attempts |-> 3, delayMs |-> 1000, backoff |-> TRUE]

(* { ...DEFAULT_OPTIONS, ...options } *)
mergeOptions(options) ==
    [attempts |-> IF options.attempts # Undefined THEN options.attempts[1]
                  ELSE DEFAULT_OPTIONS.attempts,
     delayMs |-> IF options.delayMs # Undefined THEN options.delayMs[1]
                 ELSE DEFAULT_OPTIONS.delayMs,
     backoff |-> IF options.backoff # Undefined THEN options.backoff[1]
                 ELSE DEFAULT_OPTIONS.backoff]

(* error instanceof Error ? error : new Error(String(error)) *)
toError(error) ==
    IF error.kind = "Error" THEN error ELSE [kind |-> "Error", message |-> error.message]

(* withRetry has not been called *)
NoRetry(options) ==
    [pc |-> "idle", options |-> options, attempt |-> 0, lastError |-> Undefined,
     calls |-> 0, inFlight |-> 0, settled |-> <<>>, sleeps |-> <<>>, result |-> Undefined]

(* A variant of the loop head that admits one attempt more *)
loopHeadOneMore(r) ==
    IF r.attempt <= mergeOptions(r.options).attempts + 1
    THEN [r EXCEPT !.pc = "fn", !.calls = @ + 1, !.inFlight = @ + 1]
    ELSE [r EXCEPT !.pc = "rejected", !.result = r.lastError]

(* the head of the for loop: fn() is called, or the loop is over and       *)
(* lastError is thrown                                                     *)
loopHead(r) ==
    IF r.attempt <= mergeOptions(r.options).attempts
    THEN [r EXCEPT !.pc = "fn", !.calls = @ + 1, !.inFlight = @ + 1]
    ELSE [r EXCEPT !.pc = "rejected", !.result = r.lastError]

(* the catch block, up to its await or to the next loop head *)
catchBlock(r, error) ==
    LET o == mergeOptions(r.options)
        caught == [r EXCEPT !.lastError = <<toError(error)>>]
    IN IF r.attempt < o.attempts
       THEN [caught EXCEPT !.pc = "sleep",
                           !.sleeps = Append(@, IF o.backoff THEN o.delayMs * r.attempt
                                                ELSE o.delayMs)]
       ELSE loopHead([caught EXCEPT !.attempt = @ + 1])

(* what fn may resolve with and what its call number k may throw *)
FnValues == {"ok"}
FnThrows(k) == {[kind |-> "Error", message |-> <<"fail", k>>],
                [kind |-> "string", message |-> <<"string error", k>>]}

RetryOptions ==
    [attempts : {Undefined} \cup {<<n>> : n \in 0..MaxAttempts},
     delayMs : {Undefined, <<10>>},
     backoff : {Undefined, <<FALSE>>}]

----------------------------------------------------------------------------
(* llm/claude-cli: parseJsonResponse, the retry wrapper and the structured *)
(* operations of createClaudeCLI                                           *)

MAX_RETRIES == 3

(* text.match(/\{[\s\S]*\}/): <<from the first "{" to the last "}">>, or   *)
(* Undefined                                                               *)
matchBraces(text) ==
    LET opens == {i \in 1..Len(text) : text[i] = "{"}
        first == CHOOSE i \in opens : \A j \in opens : i <= j
        closes == {i \in 1..Len(text) : text[i] = "}" /\ i > first}
        last == CHOOSE i \in closes : \A j \in closes : j <= i
    IN IF opens = {} \/ closes = {} THEN Undefined ELSE <<SubSeq(text, first, last)>>

(* JSON.parse on the texts the modelled CLI prints: <<the object>> as a    *)
(* function of its keys, or Undefined for a SyntaxError                    *)
JSONparse(json) ==
    CASE json = <<"{", "\"", "a", "\"", ":", "1", "}">> -> <<[k \in {"a"} |-> 1]>>
      [] json = <<"{", "\"", "e", "x", "p", "e", "c", "t", "a", "t", "i", "o", "n", "\"", ":", "{", "}", "}">> -> <<[k \in {"expectation"} |-> <<>>]>>
      [] OTHER -> Undefined

(* parseJsonResponse: the parsed object, or the Error it throws *)
parseJsonResponse(text) ==
    LET jsonMatch == matchBraces(text)
    IN IF jsonMatch = Undefined
       THEN [ok |-> FALSE, error |-> [name |-> "Error", message |-> "Failed to parse JSON from response"]]
       ELSE IF JSONparse(jsonMatch[1]) = Undefined
            THEN [ok |-> FALSE, error |-> [name |-> "SyntaxError", message |-> "Unexpected token"]]
            ELSE [ok |-> TRUE, data |-> JSONparse(jsonMatch[1])[1]]

(* the fn handed to the retry wrapper: callClaudeCLI has settled with      *)
(* settlement; expectAndDecide reads parsed.expectation.what               *)
attemptResult(op, settlement) ==
    IF ~settlement.resolved THEN [ok |-> FALSE, error |-> settlement.error]
    ELSE LET parsed == parseJsonResponse(settlement.text)
         IN IF parsed.ok /\ op = "expectAndDecide" /\ "expectation" \notin DOMAIN parsed.data
            THEN [ok |-> FALSE, error |-> [name |-> "TypeError", message |-> "Cannot read properties of undefined"]]
            ELSE parsed

(* how callClaudeCLI may settle: the three rejections, and the texts a     *)
(* CLI that exits with code 0 may have printed                             *)
CliSettlements ==
    {[resolved |-> FALSE, error |-> [name |-> "Error", message |-> m], text |-> <<>>] :
        m \in {"Claude CLI timed out", "Claude CLI exited with code 1"}}
    \cup {[resolved |-> TRUE, error |-> Undefined, text |-> t] :
            t \in {<<"x", "{", "\"", "a", "\"", ":", "1", "}">>, <<"n", "o">>, <<"{", "}", "}">>, <<"{", "\"", "e", "x", "p", "e", "c", "t", "a", "t", "i", "o", "n", "\"", ":", "{", "}", "}">>}}

ImageOperations == {"analyzeScreen", "evaluateResult"}
Operations == ImageOperations \cup {"formulateExpectation", "decideAction", "expectAndDecide"}

(* no operation of the provider has been called *)
NoCli ==
    [pc |-> "idle", op |-> "", call |-> <<>>, attempt |-> 0, calls |-> 0, failures |-> 0,
     lastError |-> Undefined, result |-> Undefined]

(* the operation is called: saveImageToTmp first where a screenshot goes   *)
(* with it, else the retry wrapper and the first callClaudeCLI             *)
callOperation(op, call) ==
    IF op \in ImageOperations
    THEN [NoCli EXCEPT !.pc = "saveImage", !.op = op, !.call = call]
    ELSE [NoCli EXCEPT !.pc = "call", !.op = op, !.call = call, !.attempt = 1, !.calls = 1]

(* A variant of the catch block that never gives up *)
cliCatchForever(c, error) ==
    [c EXCEPT !.lastError = <<[error EXCEPT !.message = <<@, c.attempt>>]>>,
              !.failures = @ + 1, !.attempt = @ + 1, !.calls = @ + 1]

(* the catch block of the wrapper: lastError, then throw at the last       *)
(* attempt or attempt++ and the next fn().  The message carries the        *)
(* attempt, which tells the Error objects of a call apart.                 *)
cliCatch(c, error) ==
    LET caught == [c EXCEPT !.lastError = <<[error EXCEPT !.message = <<@, c.attempt>>]>>,
                            !.failures = @ + 1]
    IN IF c.attempt = MAX_RETRIES
       THEN [caught EXCEPT !.pc = "rejected", !.result = caught.lastError]
       ELSE [caught EXCEPT !.attempt = @ + 1, !.calls = @ + 1]

(* callClaudeCLI settles: return await fn(), or the catch block *)
afterSettlement(c, settlement) ==
    LET r == attemptResult(c.op, settlement)
    IN IF r.ok THEN [c EXCEPT !.pc = "resolved", !.result = <<r.data>>]
       ELSE cliCatch(c, r.error)

(* neither withRetry nor the provider has been called *)
(* server/index: validateCreateRequest and authenticate.  A JSON value is  *)
(* [type, value] with type one of string, number, boolean, null, array,    *)
(* object, undefined; an object's value is a record whose absent           *)
(* properties are Undefined and whose present ones are <<the value>>.      *)

defaults == [maxSteps |-> 10, timeout |-> 300, waitBetweenActions |-> 3, budgetCZK |-> 5]

Str(s) == [type |-> "string", value |-> s]
Num(n) == [type |-> "number", value |-> n]
Obj(properties) == [type |-> "object", value |-> properties]

(* the typeof operator *)
typeof(v) == IF v.type \in {"null", "array"} THEN "object" ELSE v.type

(* !v *)
falsy(v) ==
    \/ v.type \in {"null", "undefined"}
    \/ v.type = "number" /\ v.value = 0
    \/ v.type = "string" /\ v.value = <<>>
    \/ v.type = "boolean" /\ ~v.value

(* b.name on body as Record<string, unknown>: the JSON value, undefined    *)
(* when the property is absent                                             *)
property(body, name) ==
    IF body.type = "object" /\ body.value[name] # Undefined THEN body.value[name][1]
    ELSE [type |-> "undefined", value |-> <<>>]

isLetter(c) ==
    \E k \in DOMAIN UpperChars : c = UpperChars[k] \/ c = LowerChars[k]

(* how many of the first characters of s are in chars *)
RECURSIVE spanOf(_, _)
spanOf(s, chars) ==
    IF s # <<>> /\ s[1] \in chars THEN 1 + spanOf(Tail(s), chars) ELSE 0

(* whether new URL(url) succeeds, for a URL without a base: a scheme (a    *)
(* letter, then letters, digits, "+", "-", ".") before the first ":", and  *)
(* a host after the slashes when the scheme is http or https               *)
validURL(url) ==
    LET text == trim(url)
        colons == {i \in 1..Len(text) : text[i] = ":"}
        colon == CHOOSE i \in colons : \A j \in colons : i <= j
        scheme == toLowerCase(SubSeq(text, 1, colon - 1))
        rest == SubSeq(text, colon + 1, Len(text))
        slashes == spanOf(rest, {"/", "\\"})
    IN /\ colons # {}
       /\ colon > 1
       /\ isLetter(text[1])
       /\ \A i \in 2..(colon - 1) : \/ isLetter(text[i])
                                     \/ \E d \in DOMAIN Digits : text[i] = Digits[d]
                                     \/ text[i] \in {"+", "-", "."}
       /\ scheme \in {<<"h", "t", "t", "p">>, <<"h", "t", "t", "p", "s">>} =>
             /\ Len(rest) > slashes
             /\ rest[slashes + 1] \notin {"/", "?", "#", ":"}

(* A variant of the range test without the upper limit *)
outsideBelow(v, low, high) == typeof(v) # "number" \/ v.value < low

(* typeof v !== 'number' || v < low || v > high *)
outside(v, low, high) == typeof(v) # "number" \/ v.value < low \/ v.value > high

invalid(message) == [valid |-> FALSE, error |-> message, data |-> <<>>]

(* the value of an optional property in data: Undefined when absent *)
optional(v) == IF v.type = "undefined" THEN Undefined ELSE <<v.value>>

validateCreateRequest(body) ==
    LET url == property(body, "url")
        persona == property(body, "persona")
        intent == property(body, "intent")
        maxSteps == property(body, "maxSteps")
        timeout == property(body, "timeout")
        waitBetweenActions == property(body, "waitBetweenActions")
        budgetCZK == property(body, "budgetCZK")
        credentials == property(body, "credentials")
    IN IF falsy(body) \/ typeof(body) # "object"
       THEN invalid("Request body must be a JSON object")
       ELSE IF typeof(url) # "string" \/ trim(url.value) = <<>>
       THEN invalid("Field url is required and must be a non-empty string")
       ELSE IF typeof(persona) # "string" \/ trim(persona.value) = <<>>
       THEN invalid("Field persona is required and must be a non-empty string")
       ELSE IF ~validURL(url.value)
       THEN invalid("Field url must be a valid URL")
       ELSE IF intent.type # "undefined" /\ typeof(intent) # "string"
       THEN invalid("Field intent must be a string")
       ELSE IF maxSteps.type # "undefined" /\ outside(maxSteps, 1, 50)
       THEN invalid("Field maxSteps must be a number between 1 and 50")
       ELSE IF timeout.type # "undefined" /\ outside(timeout, 10, 3600)
       THEN invalid("Field timeout must be a number between 10 and 3600")
       ELSE IF waitBetweenActions.type # "undefined" /\ outside(waitBetweenActions, 1, 60)
       THEN invalid("Field waitBetweenActions must be a number between 1 and 60")
       ELSE IF budgetCZK.type # "undefined" /\ (typeof(budgetCZK) # "number" \/ budgetCZK.value < 1)
       THEN invalid("Field budgetCZK must be a number >= 1")
       ELSE IF credentials.type # "undefined"
               /\ (typeof(credentials) # "object" \/ credentials.type \in {"null", "array"})
       THEN invalid("Field credentials must be an object with string values")
       ELSE [valid |-> TRUE, error |-> "",
             data |-> [url |-> url.value, persona |-> persona.value,
                       intent |-> optional(intent), maxSteps |-> optional(maxSteps),
                       timeout |-> optional(timeout),
                       waitBetweenActions |-> optional(waitBetweenActions),
                       budgetCZK |-> optional(budgetCZK),
                       credentials |-> optional(credentials)]]

(* a ?? b *)
orDefault(value, default) == IF value = Undefined THEN default ELSE value[1]

(* String.prototype.startsWith *)
startsWith(s, prefix) == Len(s) >= Len(prefix) /\ SubSeq(s, 1, Len(prefix)) = prefix

(* A variant of authenticate that accepts any Bearer token *)
authenticateAnyBearer(key, headers) ==
    \/ key = Undefined \/ key[1] = <<>>
    \/ headers.xApiKey.type = "string" /\ headers.xApiKey.value = key[1]
    \/ /\ typeof(headers.authorization) = "string"
       /\ startsWith(headers.authorization.value, <<"B", "e", "a", "r", "e", "r", " ">>)

(* authenticate: key is process.env.API_KEY, Undefined when not set; a     *)
(* header is a string, an array of strings or undefined                    *)
authenticate(key, headers) ==
    \/ key = Undefined \/ key[1] = <<>>
    \/ headers.xApiKey.type = "string" /\ headers.xApiKey.value = key[1]
    \/ /\ typeof(headers.authorization) = "string"
       /\ startsWith(headers.authorization.value, <<"B", "e", "a", "r", "e", "r", " ">>)
       /\ SubSeq(headers.authorization.value, 8, Len(headers.authorization.value)) = key[1]

----------------------------------------------------------------------------
(* server/index: the registry, executeSession and the handlers *)

SESSION_TTL_MS == 24 * 60 * 60 * 1000

(* the SessionState the POST handler builds *)
newSession(sessionId, data, t) ==
    [id |-> sessionId, status |-> "pending",
     config |-> [url |-> data.url, persona |-> data.persona, intent |-> data.intent,
                 maxSteps |-> orDefault(data.maxSteps, defaults.maxSteps),
                 timeout |-> orDefault(data.timeout, defaults.timeout),
                 waitBetweenActions |-> orDefault(data.waitBetweenActions,
                                                  defaults.waitBetweenActions),
                 budgetCZK |-> orDefault(data.budgetCZK, defaults.budgetCZK),
                 credentials |-> data.credentials],
     createdAt |-> t, startedAt |-> Undefined, completedAt |-> Undefined,
     progress |-> Undefined, report |-> Undefined, jsonReport |-> Undefined, error |-> Undefined]

(* executeSession before its await: status and startedAt *)
startSession(entry, t) == [entry EXCEPT !.status = "running", !.startedAt = <<t>>]

(* session.progress = { currentStep: 0, totalSteps, lastMessage } *)
startProgress(entry) ==
    [entry EXCEPT !.progress = <<[currentStep |-> 0, totalSteps |-> entry.config.maxSteps,
                                  lastMessage |-> "Starting session..."]>>]

(* the wrapped logger.step(stepNumber, message) *)
loggerStep(entry, stepNumber_, message) ==
    [entry EXCEPT !.progress = <<[@[1] EXCEPT !.currentStep = stepNumber_,
                                              !.lastMessage = message]>>]

(* The objects an executeSession call creates for itself: runs.browsers    *)
(* and runs.trackers hold the objects, runs.own[id] the references the run *)
(* of session id holds (0: none).                                          *)
NoRuns == [browsers |-> <<>>, trackers |-> <<>>, own |-> <<>>]

(* A variant of createRun with one cost tracker for the whole process *)
createRunSharing(r, sessionId, llmThrows) ==
    [browsers |-> Append(r.browsers, "created"),
     trackers |-> IF llmThrows \/ r.trackers # <<>> THEN r.trackers
                  ELSE <<[inputTokens |-> 0, outputTokens |-> 0]>>,
     own |-> r.own @@ (sessionId :> [browser |-> Len(r.browsers) + 1,
                                     costTracker |-> IF llmThrows THEN 0 ELSE 1])]

(* createBrowserManager(), createLLMProvider(llmType), which may throw, *)
(* and createCostTracker(config.budgetCZK, defaults.czkPerUsd)           *)
createRun(r, sessionId, llmThrows) ==
    [browsers |-> Append(r.browsers, "created"),
     trackers |-> IF llmThrows THEN r.trackers
                  ELSE Append(r.trackers, [inputTokens |-> 0, outputTokens |-> 0]),
     own |-> r.own @@ (sessionId :> [browser |-> Len(r.browsers) + 1,
                                     costTracker |-> IF llmThrows THEN 0
                                                     ELSE Len(r.trackers) + 1])]

(* a step of the run of a session: its browser and its cost tracker *)
stepRun(r, sessionId, usage) ==
    [r EXCEPT !.browsers[r.own[sessionId].browser] = "launched",
              !.trackers[r.own[sessionId].costTracker] = addUsage(@, usage[1], usage[2])]

(* the catch block of executeSession *)
failSession(entry, message, t) ==
    [entry EXCEPT !.status = "failed", !.completedAt = <<t>>, !.error = <<message>>]

(* executeSession when the awaited runSession settles: the first two       *)
(* assignments after the await, or the catch block                         *)
runSessionSettled(entry, resolved, t) ==
    IF resolved THEN [entry EXCEPT !.status = "completed", !.completedAt = <<t>>]
    ELSE failSession(entry, "runSession rejects", t)

(* how reportGenerator.generate and buildJsonReport may end *)
RenderOutcomes == {"rendered", "generate throws", "buildJsonReport throws"}

(* A variant of renderReports that publishes the Markdown report only *)
renderReportsWithoutJson(entry, outcome_, t) ==
    CASE outcome_ = "rendered" -> [entry EXCEPT !.report = <<"report">>]
      [] outcome_ = "generate throws" -> failSession(entry, outcome_, t)
      [] OTHER -> failSession([entry EXCEPT !.report = <<"report">>], outcome_, t)

(* the last two assignments of the try block, and the catch block when a   *)
(* rendering throws                                                        *)
renderReports(entry, outcome_, t) ==
    CASE outcome_ = "rendered" ->
           [entry EXCEPT !.report = <<"report">>, !.jsonReport = <<"jsonReport">>]
      [] outcome_ = "generate throws" -> failSession(entry, outcome_, t)
      [] OTHER -> failSession([entry EXCEPT !.report = <<"report">>], outcome_, t)

isTerminal(entry) == entry.status = "completed" \/ entry.status = "failed"

(* A variant of the cleanup callback that forgets the status *)
expiredWhateverStatus(entry, t) == t - entry.createdAt > SESSION_TTL_MS

(* A variant of the cleanup callback that removes at exactly 24 hours *)
expiredAtTTL(entry, t) == isTerminal(entry) /\ t - entry.createdAt >= SESSION_TTL_MS

(* the test of the cleanup callback *)
expired(entry, t) == isTerminal(entry) /\ t - entry.createdAt > SESSION_TTL_MS

(* the ids of the registry by creation time, newest first; entries created *)
(* at the same time keep the order of the Map, which is that of insertion  *)
RECURSIVE newestFirst(_, _)
newestFirst(registry, ids) ==
    IF ids = {} THEN <<>>
    ELSE LET first == CHOOSE i \in ids :
                        \A j \in ids : \/ registry[i].createdAt > registry[j].createdAt
                                       \/ /\ registry[i].createdAt = registry[j].createdAt
                                          /\ i <= j
         IN <<first>> \o newestFirst(registry, ids \ {first})

summaryItem(entry) ==
    [id |-> entry.id, status |-> entry.status, url |-> entry.config.url,
     persona |-> entry.config.persona, createdAt |-> entry.createdAt,
     completedAt |-> entry.completedAt]

unauthorized == [error |-> "Unauthorized. Provide X-API-Key header or Authorization: Bearer token."]

(* llm/index createLLMProvider throws for a type it does not provide;     *)
(* executeSession passes process.env.LLM_PROVIDER || 'claude'              *)
createLLMProviderThrows(type) == orDefault(type, "claude") \notin {"claude", "claude-cli"}

(* Inputs.  The environment, the headers and the bodies of requests. *)
Key == <<"k", "1">>
ApiKeys == {Undefined, <<<<>>>>, <<Key>>}
NoHeader == [type |-> "undefined", value |-> <<>>]
NoHeaders == [xApiKey |-> NoHeader, authorization |-> NoHeader]
KeyHeaders == [NoHeaders EXCEPT !.xApiKey = Str(Key)]
Headers ==
    <<NoHeaders, KeyHeaders,
     [NoHeaders EXCEPT !.xApiKey = Str(<<"n", "o">>)],
     [NoHeaders EXCEPT !.xApiKey = [type |-> "array", value |-> <<Key, Key>>]],
     [NoHeaders EXCEPT !.authorization = Str(<<"B", "e", "a", "r", "e", "r", " ", "k", "1">>)],
     [NoHeaders EXCEPT !.authorization = Str(<<"B", "e", "a", "r", "e", "r", " ", "k", "1", "2">>)],
     [NoHeaders EXCEPT !.authorization = Str(<<"b", "e", "a", "r", "e", "r", " ", "k", "1">>)],
     [NoHeaders EXCEPT !.authorization = Str(<<"k", "1">>)],
     [NoHeaders EXCEPT !.xApiKey = Str(<<"n", "o">>), !.authorization = Str(<<"B", "e", "a", "r", "e", "r", " ", "k", "1">>)]>>

NoProperties ==
    [url |-> Undefined, persona |-> Undefined, intent |-> Undefined, maxSteps |-> Undefined,
     timeout |-> Undefined, waitBetweenActions |-> Undefined, budgetCZK |-> Undefined,
     credentials |-> Undefined]
MinimalBody == Obj([NoProperties EXCEPT !.url = <<Str(<<"h", "t", "t", "p", "s", ":", "/", "/", "a", ".", "c", "z">>)>>,
                                        !.persona = <<Str(<<"J">>)>>])
FullBody ==
    Obj([MinimalBody.value EXCEPT !.intent = <<Str(<<"L", "o", "g", " ", "i", "n">>)>>, !.maxSteps = <<Num(50)>>,
                                  !.timeout = <<Num(10)>>, !.waitBetweenActions = <<Num(60)>>,
                                  !.budgetCZK = <<Num(1)>>,
                                  !.credentials = <<Obj([email |-> "u@a.cz"])>>])
ValidBodies ==
    <<MinimalBody, FullBody,
     Obj([MinimalBody.value EXCEPT !.url = <<Str(<<"m", "a", "i", "l", "t", "o", ":", "a">>)>>, !.maxSteps = <<Num(1)>>,
                                   !.timeout = <<Num(3600)>>,
                                   !.waitBetweenActions = <<Num(1)>>])>>
NotObjects ==
    <<[type |-> "null", value |-> <<>>], [type |-> "undefined", value |-> <<>>],
      Str(<<"s", "t", "r", "i", "n", "g">>), Num(42), [type |-> "array", value |-> <<>>]>>
BadProperties ==
    <<[url |-> Undefined], [url |-> <<Str(<<>>)>>], [url |-> <<Str(<<" ", " ">>)>>],
      [url |-> <<Str(<<"n", "o", "t", "-", "a", "-", "u", "r", "l">>)>>],
      [url |-> <<Str(<<"h", "t", "t", "p", "s", ":", "/", "/">>)>>], [url |-> <<Num(1)>>],
      [persona |-> Undefined], [persona |-> <<Str(<<>>)>>], [persona |-> <<Str(<<" ">>)>>],
      [persona |-> <<Num(1)>>],
      [intent |-> <<Num(1)>>],
      [maxSteps |-> <<Num(0)>>], [maxSteps |-> <<Num(51)>>], [maxSteps |-> <<Str(<<"5">>)>>],
      [timeout |-> <<Num(9)>>], [timeout |-> <<Num(3601)>>],
      [timeout |-> <<Str(<<"6", "0">>)>>],
      [waitBetweenActions |-> <<Num(0)>>], [waitBetweenActions |-> <<Num(61)>>],
      [waitBetweenActions |-> <<Str(<<"3">>)>>],
      [budgetCZK |-> <<Num(0)>>], [budgetCZK |-> <<Str(<<"5">>)>>],
      [credentials |-> <<Str(<<"x">>)>>],
      [credentials |-> <<[type |-> "null", value |-> <<>>]>>],
      [credentials |-> <<[type |-> "array", value |-> <<>>]>>]>>
(* a valid body with one property replaced *)
replaced(body, bad) ==
    Obj([name \in DOMAIN body.value |->
            IF name \in DOMAIN bad THEN bad[name] ELSE body.value[name]])
InvalidBodies ==
    NotObjects \o [i \in 1..Len(BadProperties) |-> replaced(FullBody, BadProperties[i])]
(* every pair of one of hs and one of bs *)
pairs(hs, bs) ==
    [k \in 1..(Len(hs) * Len(bs)) |->
        <<hs[((k - 1) \div Len(bs)) + 1], bs[((k - 1) % Len(bs)) + 1]>>]
PostRequests ==
    pairs(Headers, <<MinimalBody>>) \o pairs(<<KeyHeaders>>, Tail(ValidBodies))
    \o pairs(<<KeyHeaders>>, InvalidBodies) \o <<<<NoHeaders, NotObjects[1]>>>>

(* a request and the reply to it; id is the :id of GET /sessions/:id, and   *)
(* turn changes with every reply                                           *)
NoExchange ==
    [turn |-> FALSE, route |-> "", headers |-> NoHeaders, body |-> [type |-> "undefined", value |-> <<>>], id |-> 0,
     code |-> 0, payload |-> <<>>]

InitNoServer ==
    /\ sessions = <<>>
    /\ tasks = <<>>
    /\ env = [API_KEY |-> Undefined, LLM_PROVIDER |-> Undefined]
    /\ uuids = 0
    /\ clock = 0
    /\ exchange = NoExchange
    /\ runs = NoRuns
    /\ usageLog = <<>>
    /\ heap = NoHeap


InitSide ==
    /\ retry = NoRetry([attempts |-> Undefined, delayMs |-> Undefined, backoff |-> Undefined])
    /\ cli = NoCli
    /\ InitNoServer

----------------------------------------------------------------------------
(* The session: server executeSession around core/session runSession *)

NoContext == createInitialContext("", "")
NoSession ==
    [status |-> "pending", startedAt |-> 0, completedAt |-> 0,
     report |-> <<>>, jsonReport |-> <<>>, error |-> ""]

(* nothing has been handed to the text functions of the JSON report *)
InitText ==
    /\ noteIn = <<>>
    /\ sentimentOut = ""
    /\ issueIn = <<>>
    /\ categoryIn = <<>>
    /\ criteriaOut = <<>>
    /\ detected = NoDetection

InitRun ==
    /\ pc = "pending"
    /\ now = 0
    /\ startTime = 0
    /\ sessionStartTime = 0
    /\ endTime = 0
    /\ stepNumber = 0
    /\ steps = <<>>
    /\ context = NoContext
    /\ tracker = [inputTokens |-> 0, outputTokens |-> 0]
    /\ cur = NoStep
    /\ browser = [launchCalls |-> 0, closeCalls |-> 0, open |-> FALSE]
    /\ exitLog = "none"
    /\ report = <<>>
    /\ outcome = [kind |-> "pending", error |-> ""]
    /\ session = NoSession

Init ==
    /\ config \in Configs
    /\ deps = [llm |-> AnyLLM]
    /\ InitRun
    /\ other = <<>>
    /\ scoreIn = <<>>
    /\ scoreOut = <<>>
    /\ InitText
    /\ InitSide

(* An awaited call takes some time. *)
Elapse == \E d \in Delays : now + d <= MaxClock /\ now' = now + d

(* The usage an LLM call reports; the large one at most MaxBigCalls times. *)
UsageAllowed(u) == u = BigUsage => tracker.inputTokens \div BigUsage[1] < MaxBigCalls

(* runSession rejects: executeSession's catch block *)
Reject(err) ==
    /\ pc' = "done"
    /\ outcome' = [kind |-> "rejected", error |-> err]
    /\ session' = [session EXCEPT !.status = "failed", !.completedAt = now', !.error = err]

(* runSession returns: the rest of executeSession's try block.  The two    *)
(* renderings are pure functions of the report and are kept as the report. *)
Return ==
    /\ pc' = "done"
    /\ outcome' = [kind |-> "returned", error |-> ""]
    /\ session' = [session EXCEPT !.status = "completed", !.completedAt = now',
                                  !.report = report, !.jsonReport = report]

(* runSession calls browser.close() *)
CallClose ==
    /\ browser' = [browser EXCEPT !.closeCalls = @ + 1]
    /\ pc' = "close"

(* A variant of Caught that also closes the browser in the catch block *)
CaughtClosesToo ==
    /\ exitLog' = "step failed"
    /\ cur' = NoStep
    /\ browser' = [browser EXCEPT !.closeCalls = @ + 2]
    /\ pc' = "close"

(* A variant of Caught that continues the loop with the same step *)
CaughtRetries ==
    /\ exitLog' = "step failed"
    /\ cur' = NoStep
    /\ pc' = "loop"
    /\ UNCHANGED browser

(* the catch block of the step loop: log and break *)
Caught ==
    /\ exitLog' = "step failed"
    /\ cur' = NoStep
    /\ CallClose

(* executeSession up to runSession's first await, browser.launch() *)
ExecuteSession ==
    /\ pc = "pending"
    /\ session' = [session EXCEPT !.status = "running", !.startedAt = now]
    /\ startTime' = now
    /\ steps' = <<>>
    /\ browser' = [browser EXCEPT !.launchCalls = @ + 1]
    /\ pc' = "launch"
    /\ UNCHANGED <<config, deps, now, sessionStartTime, endTime, stepNumber, context,
                   tracker, cur, exitLog, report, outcome, other, scoreVars, textVars, sideVars>>

Launch ==
    /\ pc = "launch"
    /\ Elapse
    /\ \/ /\ browser' = [browser EXCEPT !.open = TRUE]
          /\ pc' = "navigate"
          /\ UNCHANGED <<outcome, session>>
       \/ /\ Reject("launch failed")
          /\ UNCHANGED browser
    /\ UNCHANGED <<config, deps, startTime, sessionStartTime, endTime, stepNumber, steps,
                   context, tracker, cur, exitLog, report, other, scoreVars, textVars, sideVars>>

(* browser.navigate, then getPage (non-null once launched) and the call of *)
(* vision.capture                                                          *)
Navigate ==
    /\ pc = "navigate"
    /\ Elapse
    /\ \/ /\ pc' = "initialCapture"
          /\ UNCHANGED <<outcome, session>>
       \/ Reject("navigation failed")
    /\ UNCHANGED <<config, deps, startTime, sessionStartTime, endTime, stepNumber, steps,
                   context, tracker, cur, browser, exitLog, report, other, scoreVars, textVars, sideVars>>

InitialCapture ==
    /\ pc = "initialCapture"
    /\ Elapse
    /\ \/ /\ pc' = "pageContext"
          /\ UNCHANGED <<outcome, session>>
       \/ Reject("capture failed")
    /\ UNCHANGED <<config, deps, startTime, sessionStartTime, endTime, stepNumber, steps,
                   context, tracker, cur, browser, exitLog, report, other, scoreVars, textVars, sideVars>>

(* llm.getPageContext, its usage, the initial context and the loop's start *)
GetPageContext ==
    /\ pc = "pageContext"
    /\ Elapse
    /\ \/ /\ \E u \in Usages :
                /\ UsageAllowed(u)
                /\ tracker' = addUsage(tracker, u[1], u[2])
          /\ context' = createInitialContext(config.intent, "a ticket shop")
          /\ sessionStartTime' = now'
          /\ stepNumber' = 1
          /\ pc' = "loop"
          /\ UNCHANGED <<outcome, session>>
       \/ /\ Reject("page context failed")
          /\ UNCHANGED <<tracker, context, sessionStartTime, stepNumber>>
    /\ UNCHANGED <<config, deps, startTime, endTime, steps, cur, browser, exitLog, report,
                   other, scoreVars, textVars, sideVars>>

----------------------------------------------------------------------------
(* The step loop of runSession.  pc = "loop" is the loop head: the loop    *)
(* condition and the two checks run without an await up to the next call.  *)

(* A variant of sessionTimeout that converts seconds twice *)
sessionTimeoutTwice == config.timeout * MsPerSecond * MsPerSecond

sessionTimeout == config.timeout * MsPerSecond

timeoutReached == now - sessionStartTime > sessionTimeout

(* A variant of loopCondition that runs one step too many *)
loopConditionOffByOne == stepNumber <= config.maxSteps + 1

(* the condition of the for loop *)
loopCondition == stepNumber <= config.maxSteps

(* the StepResult executeStep returns *)
stepResult(n, c, evaluation) ==
    [stepNumber |-> n, timestamp |-> c.timestamp, action |-> c.action,
     evaluation |-> evaluation]

(* what no action between the loop head and browser.close() changes *)
loopFrame == <<config, deps, startTime, sessionStartTime, endTime, report, outcome,
               session, other, scoreVars, textVars, sideVars>>

(* the loop condition is false: the loop is over *)
LoopEnd ==
    /\ pc = "loop"
    /\ ~loopCondition
    /\ CallClose
    /\ UNCHANGED <<now, stepNumber, steps, context, tracker, cur, exitLog>>
    /\ UNCHANGED loopFrame

TimeoutBreak ==
    /\ pc = "loop"
    /\ loopCondition
    /\ timeoutReached
    /\ exitLog' = "Session timeout reached"
    /\ CallClose
    /\ UNCHANGED <<now, stepNumber, steps, context, tracker, cur>>
    /\ UNCHANGED loopFrame

BudgetBreak ==
    /\ pc = "loop"
    /\ loopCondition
    /\ ~timeoutReached
    /\ isOverBudget(tracker, config.budgetCZK)
    /\ exitLog' = "Budget limit reached"
    /\ CallClose
    /\ UNCHANGED <<now, stepNumber, steps, context, tracker, cur>>
    /\ UNCHANGED loopFrame

(* executeStep is called and calls vision.capture() *)
StepStart ==
    /\ pc = "loop"
    /\ loopCondition
    /\ ~timeoutReached
    /\ ~isOverBudget(tracker, config.budgetCZK)
    /\ pc' = "capture"
    /\ UNCHANGED <<now, stepNumber, steps, context, tracker, cur, browser, exitLog>>
    /\ UNCHANGED loopFrame

(* An LLM call of executeStep that does not complete: the call throws, or  *)
(* it returns, its usage is added and logger.saveLLMResponse throws.       *)
LLMCallFails ==
    /\ \/ UNCHANGED tracker
       \/ \E u \in Usages :
             /\ UsageAllowed(u)
             /\ tracker' = addUsage(tracker, u[1], u[2])
    /\ Caught

(* 1. vision.capture and logger.saveScreenshot *)
CaptureBefore ==
    /\ pc = "capture"
    /\ Elapse
    /\ \/ /\ cur' = [NoStep EXCEPT !.timestamp = now', !.snapshot = Snapshot]
          /\ pc' = "analyze"
          /\ UNCHANGED <<browser, exitLog>>
       \/ Caught
    /\ UNCHANGED <<stepNumber, steps, context, tracker>>
    /\ UNCHANGED loopFrame

(* 2. llm.analyzeScreen *)
AnalyzeScreen ==
    /\ pc = "analyze"
    /\ Elapse
    /\ \/ /\ \E u \in Usages :
                /\ UsageAllowed(u)
                /\ tracker' = addUsage(tracker, u[1], u[2])
          /\ pc' = "expect"
          /\ UNCHANGED <<cur, browser, exitLog>>
       \/ LLMCallFails
    /\ UNCHANGED <<stepNumber, steps, context>>
    /\ UNCHANGED loopFrame

(* 3. llm.formulateExpectation *)
FormulateExpectation ==
    /\ pc = "expect"
    /\ Elapse
    /\ \/ /\ \E u \in Usages :
                /\ UsageAllowed(u)
                /\ tracker' = addUsage(tracker, u[1], u[2])
          /\ pc' = "decide"
          /\ UNCHANGED <<cur, browser, exitLog>>
       \/ LLMCallFails
    /\ UNCHANGED <<stepNumber, steps, context>>
    /\ UNCHANGED loopFrame

(* 4. llm.decideAction, then browser.setSnapshot and the call of           *)
(* browser.executeAction                                                   *)
DecideAction ==
    /\ pc = "decide"
    /\ Elapse
    /\ \/ /\ \E u \in Usages :
                /\ UsageAllowed(u)
                /\ tracker' = addUsage(tracker, u[1], u[2])
          /\ \E a \in deps.llm.actions : cur' = [cur EXCEPT !.action = a]
          /\ pc' = "act"
          /\ UNCHANGED <<browser, exitLog>>
       \/ LLMCallFails
    /\ UNCHANGED <<stepNumber, steps, context>>
    /\ UNCHANGED loopFrame

(* A variant of ExecuteAction in which a failed action is an exception *)
ExecuteActionThrows ==
    /\ pc = "act"
    /\ Elapse
    /\ \E pageOk \in BOOLEAN :
          LET result == browserExecuteAction(cur.action, cur.snapshot, pageOk)
          IN IF result.success
             THEN /\ cur' = [cur EXCEPT !.actionSuccess = TRUE, !.ops = result.ops,
                                        !.pageOk = pageOk]
                  /\ pc' = "settle"
                  /\ UNCHANGED <<browser, exitLog>>
             ELSE Caught
    /\ UNCHANGED <<stepNumber, steps, context, tracker>>
    /\ UNCHANGED loopFrame

(* 5. browser.executeAction: the action result is logged when it failed,   *)
(* and the step goes on to the settle wait either way.                     *)
ExecuteAction ==
    /\ pc = "act"
    /\ Elapse
    /\ \E pageOk \in BOOLEAN :
          LET result == browserExecuteAction(cur.action, cur.snapshot, pageOk)
          IN cur' = [cur EXCEPT !.actionSuccess = result.success, !.ops = result.ops,
                               !.pageOk = pageOk]
    /\ pc' = "settle"
    /\ UNCHANGED <<stepNumber, steps, context, tracker, browser, exitLog>>
    /\ UNCHANGED loopFrame

(* A variant of Settle with a budget check of its own *)
SettleChecksBudget ==
    /\ pc = "settle"
    /\ IF isOverBudget(tracker, config.budgetCZK)
       THEN /\ exitLog' = "Budget limit reached"
            /\ CallClose
            /\ UNCHANGED now
       ELSE /\ now + config.waitBetweenActions * MsPerSecond <= MaxClock
            /\ now' = now + config.waitBetweenActions * MsPerSecond
            /\ pc' = "captureAfter"
            /\ UNCHANGED <<browser, exitLog>>
    /\ UNCHANGED <<stepNumber, steps, context, tracker, cur>>
    /\ UNCHANGED loopFrame

(* 6. setTimeout(config.waitBetweenActions * 1000), then vision.capture()  *)
Settle ==
    /\ pc = "settle"
    /\ now + config.waitBetweenActions * MsPerSecond <= MaxClock
    /\ now' = now + config.waitBetweenActions * MsPerSecond
    /\ pc' = "captureAfter"
    /\ UNCHANGED <<stepNumber, steps, context, tracker, cur, browser, exitLog>>
    /\ UNCHANGED loopFrame

(* 7. vision.capture and logger.saveScreenshot *)
CaptureAfter ==
    /\ pc = "captureAfter"
    /\ Elapse
    /\ \/ /\ pc' = "evaluate"
          /\ UNCHANGED <<cur, browser, exitLog>>
       \/ Caught
    /\ UNCHANGED <<stepNumber, steps, context, tracker>>
    /\ UNCHANGED loopFrame

(* 8. llm.evaluateResult; executeStep returns and runSession pushes the    *)
(* result, then calls llm.summarizeContext unless this was the last step   *)
EvaluateResult ==
    /\ pc = "evaluate"
    /\ Elapse
    /\ \/ /\ \E u \in Usages :
                /\ UsageAllowed(u)
                /\ tracker' = addUsage(tracker, u[1], u[2])
          /\ \E e \in deps.llm.evaluations :
                steps' = Append(steps, stepResult(stepNumber, cur, e))
          /\ cur' = NoStep
          /\ IF stepNumber < config.maxSteps
             THEN pc' = "summarize" /\ stepNumber' = stepNumber
             ELSE pc' = "loop" /\ stepNumber' = stepNumber + 1
          /\ UNCHANGED <<browser, exitLog>>
       \/ /\ LLMCallFails
          /\ UNCHANGED <<steps, stepNumber>>
    /\ UNCHANGED context
    /\ UNCHANGED loopFrame

(* A variant of SummarizeContext that does not await the summary: the loop *)
(* goes on with the context it had                                         *)
SummarizeContextNotAwaited ==
    /\ pc = "summarize"
    /\ Elapse
    /\ \/ /\ stepNumber' = stepNumber + 1
          /\ pc' = "loop"
          /\ UNCHANGED <<tracker, context, cur, browser, exitLog>>
       \/ /\ Caught
          /\ UNCHANGED <<tracker, context, stepNumber>>
    /\ UNCHANGED steps
    /\ UNCHANGED loopFrame

(* A variant of SummarizeContext that leaves the usage of the call out *)
SummarizeContextUnbilled ==
    /\ pc = "summarize"
    /\ Elapse
    /\ \/ /\ context' = updateContext(context, steps[Len(steps)],
                                      <<"after step", stepNumber>>)
          /\ stepNumber' = stepNumber + 1
          /\ pc' = "loop"
          /\ UNCHANGED <<tracker, cur, browser, exitLog>>
       \/ /\ Caught
          /\ UNCHANGED <<tracker, context, stepNumber>>
    /\ UNCHANGED steps
    /\ UNCHANGED loopFrame

(* llm.summarizeContext, its usage and updateContext; stepNumber++ *)
SummarizeContext ==
    /\ pc = "summarize"
    /\ Elapse
    /\ \/ /\ \E u \in Usages :
                /\ UsageAllowed(u)
                /\ tracker' = addUsage(tracker, u[1], u[2])
          /\ context' = updateContext(context, steps[Len(steps)],
                                      <<"after step", stepNumber>>)
          /\ stepNumber' = stepNumber + 1
          /\ pc' = "loop"
          /\ UNCHANGED <<cur, browser, exitLog>>
       \/ /\ Caught
          /\ UNCHANGED <<tracker, context, stepNumber>>
    /\ UNCHANGED steps
    /\ UNCHANGED loopFrame

----------------------------------------------------------------------------
(* After the loop *)

(* browser.close; then endTime, the report and the call of                 *)
(* reportGenerator.save                                                    *)
Close ==
    /\ pc = "close"
    /\ Elapse
    /\ \/ /\ browser' = [browser EXCEPT !.open = FALSE]
          /\ endTime' = now'
          /\ report' = <<assembleReport(config, startTime, now', steps, context, tracker)>>
          /\ pc' = "save"
          /\ UNCHANGED <<outcome, session>>
       \/ /\ Reject("close failed")
          /\ UNCHANGED <<browser, endTime, report>>
    /\ UNCHANGED <<config, deps, startTime, sessionStartTime, stepNumber, steps, context,
                   tracker, cur, exitLog, other, scoreVars, textVars, sideVars>>

(* reportGenerator.save; then saveJsonReport if config.jsonOutputPath *)
Save ==
    /\ pc = "save"
    /\ Elapse
    /\ \/ /\ config.jsonOutputPath
          /\ pc' = "saveJson"
          /\ UNCHANGED <<outcome, session>>
       \/ /\ ~config.jsonOutputPath
          /\ Return
       \/ Reject("save failed")
    /\ UNCHANGED <<config, deps, startTime, sessionStartTime, endTime, stepNumber, steps,
                   context, tracker, cur, browser, exitLog, report, other, scoreVars, textVars, sideVars>>

SaveJson ==
    /\ pc = "saveJson"
    /\ Elapse
    /\ \/ Return
       \/ Reject("save failed")
    /\ UNCHANGED <<config, deps, startTime, sessionStartTime, endTime, stepNumber, steps,
                   context, tracker, cur, browser, exitLog, report, other, scoreVars, textVars, sideVars>>

Next ==
    \/ ExecuteSession
    \/ Launch
    \/ Navigate
    \/ InitialCapture
    \/ GetPageContext
    \/ LoopEnd
    \/ TimeoutBreak
    \/ BudgetBreak
    \/ StepStart
    \/ CaptureBefore
    \/ AnalyzeScreen
    \/ FormulateExpectation
    \/ DecideAction
    \/ ExecuteAction
    \/ Settle
    \/ CaptureAfter
    \/ EvaluateResult
    \/ SummarizeContext
    \/ Close
    \/ Save
    \/ SaveJson

Spec == Init /\ [][Next]_vars

----------------------------------------------------------------------------
(* A step failed and runSession returned a report: the result is kept and  *)
(* runSession is executed again with the same config, the same             *)
(* collaborators and the same clock.                                       *)

RunAgainAfterFailure ==
    /\ pc = "done"
    /\ other = <<>>
    /\ exitLog = "step failed"
    /\ outcome.kind = "returned"
    /\ other' = <<[exitLog |-> exitLog, outcome |-> outcome, report |-> report,
                   session |-> session]>>
    /\ pc' = "pending"
    /\ now' = 0
    /\ startTime' = 0
    /\ sessionStartTime' = 0
    /\ endTime' = 0
    /\ stepNumber' = 0
    /\ steps' = <<>>
    /\ context' = NoContext
    /\ tracker' = [inputTokens |-> 0, outputTokens |-> 0]
    /\ cur' = NoStep
    /\ browser' = [launchCalls |-> 0, closeCalls |-> 0, open |-> FALSE]
    /\ exitLog' = "none"
    /\ report' = <<>>
    /\ outcome' = [kind |-> "pending", error |-> ""]
    /\ session' = NoSession
    /\ UNCHANGED <<config, deps, scoreVars, textVars, sideVars>>

InitPair ==
    /\ config \in Configs
    /\ config.maxSteps = 2
    /\ config.jsonOutputPath
    /\ deps = [llm |-> TerseLLM]
    /\ InitRun
    /\ other = <<>>
    /\ scoreIn = <<>>
    /\ scoreOut = <<>>
    /\ InitText
    /\ InitSide

NextPair == Next \/ RunAgainAfterFailure

SpecPair == InitPair /\ [][NextPair]_vars

----------------------------------------------------------------------------
(* calculateIntuitivenessScore applied to every step list of bounded length *)

ScoreInputs ==
    UNION { [1..n -> [evaluation : [result : EvaluationResult]]] : n \in 0..MaxScoreLen }

InitScore ==
    /\ config = CHOOSE c \in Configs : TRUE
    /\ deps = [llm |-> AnyLLM]
    /\ InitRun
    /\ other = <<>>
    /\ scoreIn \in ScoreInputs
    /\ scoreOut = <<>>
    /\ InitText
    /\ InitSide

CalculateScore ==
    /\ scoreOut = <<>>
    /\ scoreOut' = <<calculateIntuitivenessScore(scoreIn)>>
    /\ UNCHANGED <<config, deps, runVars, other, scoreIn, textVars, sideVars>>

NextScore == CalculateScore

SpecScore == InitScore /\ [][NextScore]_vars

----------------------------------------------------------------------------
(* calculateIntuitivenessScore applied to a step list and then to the same *)
(* steps in another order: the first list and its score are kept in other, *)
(* two steps of the list change places and the score is calculated again.  *)
(* The first list has the steps with the larger penalty first; every list  *)
(* is an arrangement of one such list.                                     *)

WorstFirst(stepList) ==
    \A i \in 1..(Len(stepList) - 1) :
        penaltyHalves(stepList[i].evaluation.result)
            >= penaltyHalves(stepList[i + 1].evaluation.result)

InitReorder ==
    /\ InitScore
    /\ WorstFirst(scoreIn)

ReorderSteps ==
    /\ scoreOut # <<>>
    /\ \E i, j \in 1..Len(scoreIn) :
          /\ i < j
          /\ scoreIn[i] # scoreIn[j]
          /\ scoreIn' = [scoreIn EXCEPT ![i] = scoreIn[j], ![j] = scoreIn[i]]
    /\ scoreOut' = <<>>
    /\ other' = IF other # <<>> THEN other
                ELSE <<[scoreIn |-> scoreIn, scoreOut |-> scoreOut]>>
    /\ UNCHANGED <<config, deps, runVars, textVars, sideVars>>

NextReorder == CalculateScore \/ ReorderSteps

SpecReorder == InitReorder /\ [][NextReorder]_vars

----------------------------------------------------------------------------
(* updateContext applied again and again, starting from the initial        *)
(* context, to step results with every list of up to two notes             *)

NotePool == {BadNote, FineNote, LoudNote}
NoteLists == UNION { [1..n -> NotePool] : n \in 0..2 }

CallUpdateContext ==
    /\ context.stepCount < MaxUpdates
    /\ \E notes \in NoteLists :
          LET evaluation == [result |-> "partial", reality |-> "something happened",
                             notes |-> notes, suggestions |-> <<>>, userQuote |-> ""]
              result == stepResult(context.stepCount + 1, NoStep, evaluation)
          IN context' = updateContext(context, result, <<"after step", result.stepNumber>>)
    /\ UNCHANGED <<config, deps, pc, now, startTime, sessionStartTime, endTime, stepNumber,
                   steps, tracker, cur, browser, exitLog, report, outcome, session, other,
                   scoreVars, textVars, sideVars>>

NextContext == CallUpdateContext

SpecContext == Init /\ [][NextContext]_vars

----------------------------------------------------------------------------
(* createInitialContext and updateContext called on objects: any context  *)
(* made so far may be updated, any number of times                        *)

MaxObjects == 8
HeapIntents == {Undefined, <<"find music">>}
HeapPageContexts == {Undefined, <<"a music streaming app">>}
HeapNotes == {<<>>, <<BadNote>>, <<FineNote, LoudNote>>}
HeapSummaries == {<<"after step", 1>>, <<"after step", 2>>}

isContextRef(objects, r) == r \in DOMAIN objects /\ r % 2 = 0

CallCreateInitialContext ==
    /\ Len(heap.objects) + 2 <= MaxObjects
    /\ \E intent \in HeapIntents, pageContext \in HeapPageContexts :
          LET made == createInitialContextIn(heap.objects, intent, pageContext)
          IN heap' = [objects |-> made.objects,
                      call |-> [fn |-> "createInitialContext", intent |-> intent,
                                pageContext |-> pageContext, result |-> made.ref]]
    /\ UNCHANGED <<config, deps, runVars, other, scoreVars, textVars, retry, cli, serverVars,
                   usageLog>>

CallUpdateContextIn ==
    /\ Len(heap.objects) + 2 <= MaxObjects
    /\ \E c \in DOMAIN heap.objects, notes \in HeapNotes, newSummary \in HeapSummaries :
          /\ isContextRef(heap.objects, c)
          /\ LET evaluation == [result |-> "partial", reality |-> "something happened",
                                notes |-> notes, suggestions |-> <<>>, userQuote |-> ""]
                 result == stepResult(heap.objects[c].stepCount + 1, NoStep, evaluation)
                 made == updateContextIn(heap.objects, c, result, newSummary)
             IN heap' = [objects |-> made.objects,
                         call |-> [fn |-> "updateContext", context |-> c,
                                   stepResult |-> result, newSummary |-> newSummary,
                                   result |-> made.ref]]
    /\ UNCHANGED <<config, deps, runVars, other, scoreVars, textVars, retry, cli, serverVars,
                   usageLog>>

NextHeap ==
    \/ CallCreateInitialContext
    \/ CallUpdateContextIn

SpecHeap == Init /\ [][NextHeap]_vars

----------------------------------------------------------------------------
(* classifyNoteSentiment applied to every note of up to MaxWords words *)

SentimentWords ==
    {<<"g", "o", "o", "d", " ">>, <<"c", "l", "e", "a", "r", " ">>, <<"u", "n", "c", "l", "e", "a", "r", " ">>, <<"s", "l", "o", "w", " ">>, <<"e", "r", "r", "o", "r", " ">>, <<",", " ", "b", "u", "t", " ">>, <<"a", "l", "e", " ">>, <<"m", "e", "n", "u", " ">>}

RECURSIVE concat(_)
concat(texts) == IF texts = <<>> THEN <<>> ELSE Head(texts) \o concat(Tail(texts))

SentimentInputs ==
    {concat(words) : words \in UNION { [1..n -> SentimentWords] : n \in 0..MaxWords }}

(* everything but the arguments of the text functions *)
InitRest ==
    /\ config = CHOOSE c \in Configs : TRUE
    /\ deps = [llm |-> AnyLLM]
    /\ InitRun
    /\ other = <<>>
    /\ scoreIn = <<>>
    /\ scoreOut = <<>>
    /\ InitSide

InitSentiment ==
    /\ InitRest
    /\ noteIn \in SentimentInputs
    /\ sentimentOut = ""
    /\ issueIn = <<>>
    /\ categoryIn = <<>>
    /\ criteriaOut = <<>>
    /\ detected = NoDetection

ClassifyNote ==
    /\ sentimentOut = ""
    /\ sentimentOut' = classifyNoteSentiment(noteIn)
    /\ UNCHANGED <<config, deps, runVars, other, scoreVars, noteIn, issueIn, categoryIn,
                   criteriaOut, detected, sideVars>>

NextSentiment == ClassifyNote

SpecSentiment == InitSentiment /\ [][NextSentiment]_vars

----------------------------------------------------------------------------
(* generateAcceptanceCriteria applied to every issue text of up to         *)
(* MaxWords words, with every category of a small set                      *)

IssueWords ==
    {<<"p", "a", "s", "s", "w", "o", "r", "d", " ">>, <<"p", "r", "a", "v", "i", "d", "l", " ">>, <<"s", "k", "r", "y", "t", " ">>, <<"r", "e", "q", "u", "i", "r", "e", "d", " ">>, <<"v", "a", "l", "i", "d", "a", "c", " ">>, <<"s", "m", "a", "l", "l", " ">>,
     <<"f", "e", "e", "d", "b", "a", "c", "k", " ">>, <<"a", "d", "d", " ", "a", " ", "h", "i", "n", "t", ",", " ">>, <<"s", "h", "o", "w", " ">>, <<"w", "e", "l", "c", "o", "m", "e", " ">>}

IssueInputs ==
    {concat(words) : words \in UNION { [1..n -> IssueWords] : n \in 0..MaxWords }}

CategoryInputs == {<<"f", "o", "r", "m">>, <<"o", "n", "b", "o", "a", "r", "d", "i", "n", "g">>, <<"n", "a", "v", "i", "g", "a", "t", "i", "o", "n">>, <<"u", "x">>}

InitCriteria ==
    /\ InitRest
    /\ noteIn = <<>>
    /\ sentimentOut = ""
    /\ issueIn \in IssueInputs
    /\ categoryIn \in CategoryInputs
    /\ criteriaOut = <<>>
    /\ detected = NoDetection

GenerateCriteria ==
    /\ criteriaOut = <<>>
    /\ criteriaOut' = generateAcceptanceCriteria(issueIn, categoryIn)
    /\ UNCHANGED <<config, deps, runVars, other, scoreVars, noteIn, sentimentOut, issueIn,
                   categoryIn, detected, sideVars>>

NextCriteria == GenerateCriteria

SpecCriteria == InitCriteria /\ [][NextCriteria]_vars

----------------------------------------------------------------------------
(* detectCategory and detectSeverity applied to every text of up to        *)
(* MaxWords words of two pools, detectSeverity with either category        *)

DetectCategoryWords ==
    {<<"F", "o", "r", "m", " ">>, <<"m", "e", "n", "u", " ">>, <<"s", "l", "o", "w", " ">>, <<"a", "1", "1", "y", " ">>, <<"s", "i", "g", "n", " ", "u", "p", " ">>, <<"l", "a", "b", "e", "l", " ">>, <<"e", "r", "r", "o", "r", " ">>, <<"c", "o", "n", "f", "i", "r", "m", " ">>,
     <<"p", "a", "s", "s", "w", "o", "r", "d", " ">>, <<"b", "u", "t", "t", "o", "n", " ">>, <<"P", "e", "r", "f", "o", "r", "m", "a", "n", "c", "e", " ">>, <<"v", "y", "t", "v", "o", "U+0159", " ">>, <<"U+00FA", "U+010D", "e", "t", " ">>, <<"p", "a", "g", "e", " ">>}
DetectSeverityWords ==
    {<<"b", "r", "o", "k", "e", "n", " ">>, <<"C", "a", "n", "n", "o", "t", " ">>, <<"c", "o", "n", "f", "u", "s", "i", "n", "g", " ">>, <<"m", "i", "s", "s", "i", "n", "g", " ">>, <<"p", "a", "s", "s", "w", "o", "r", "d", " ">>, <<"n", "e", "v", "U+00ED", "m", " ">>, <<"n", "e", "l", "z", "e", " ">>,
     <<"p", "a", "g", "e", " ">>}
DetectTexts ==
    {concat(words) : words \in UNION { [1..n -> DetectCategoryWords] : n \in 0..MaxWords }}
    \cup {concat(words) : words \in UNION { [1..n -> DetectSeverityWords] : n \in 0..MaxWords }}
DetectCategories == {<<"o", "n", "b", "o", "a", "r", "d", "i", "n", "g">>, <<"u", "x">>}

InitDetect ==
    /\ InitRest
    /\ noteIn = <<>>
    /\ sentimentOut = ""
    /\ issueIn \in DetectTexts
    /\ categoryIn \in DetectCategories
    /\ criteriaOut = <<>>
    /\ detected = NoDetection

DetectCategory ==
    /\ detected.category = <<>>
    /\ detected' = [detected EXCEPT !.category = detectCategory(issueIn)]
    /\ UNCHANGED <<config, deps, runVars, other, scoreVars, noteIn, sentimentOut, issueIn,
                   categoryIn, criteriaOut, sideVars>>

DetectSeverity ==
    /\ detected.severity = ""
    /\ detected' = [detected EXCEPT !.severity = detectSeverity(issueIn, categoryIn)]
    /\ UNCHANGED <<config, deps, runVars, other, scoreVars, noteIn, sentimentOut, issueIn,
                   categoryIn, criteriaOut, sideVars>>

NextDetect ==
    \/ DetectCategory
    \/ DetectSeverity

SpecDetect == InitDetect /\ [][NextDetect]_vars

----------------------------------------------------------------------------
(* buildJsonReport applied to the report of every full run of up to        *)
(* MaxJsonSteps steps whose evaluations are drawn from four kinds: many    *)
(* complaints (two different sets), many praises and plain remarks, and a  *)
(* mixture of notes with suggestions.                                      *)

(* a note that starts with a two-digit number *)
numbered(n, text) == padStart(toString(n), 2, "0") \o <<":", " ">> \o text

SlowEvaluation(from, result) ==
    [result |-> result, reality |-> "the page took long",
     notes |-> [k \in 1..11 |-> numbered(from + k, <<"t", "h", "e", " ", "p", "a", "g", "e", " ", "i", "s", " ", "s", "l", "o", "w">>)],
     suggestions |-> <<>>, userQuote |-> ""]

BusyEvaluation ==
    [result |-> "surprised", reality |-> "a lot happened",
     notes |-> [k \in 1..11 |-> numbered(k, <<"t", "h", "i", "s", " ", "w", "o", "r", "k", "s", " ", "g", "r", "e", "a", "t">>)]
               \o [k \in 1..11 |-> numbered(k, <<"a", " ", "g", "r", "e", "y", " ", "b", "a", "n", "n", "e", "r">>)],
     suggestions |-> <<>>, userQuote |-> ""]

MixedEvaluation ==
    [result |-> "met", reality |-> "as expected",
     notes |-> <<<<"o", "k">>,
                 <<"T", "h", "e", " ", "h", "i", "d", "d", "e", "n", " ", "m", "e", "n", "u", " ", "i", "s", " ", "p", "o", "o", "r", ".", " ", "R", "e", "a", "l", "l", "y", ".">>,
                 <<"S", "i", "g", "n", " ", "u", "p", " ", "f", "o", "r", "m", " ", "i", "s", " ", "u", "n", "c", "l", "e", "a", "r", ",", " ", "b", "u", "t", " ", "n", "i", "c", "e">>,
                 <<"T", "h", "e", " ", "c", "h", "e", "c", "k", "o", "u", "t", " ", "i", "s", " ", "e", "a", "s", "y", " ", "a", "n", "d", " ", "f", "a", "s", "t">>>>,
     suggestions |-> <<<<"A", "d", "d", " ", "a", " ", "l", "a", "b", "e", "l", " ", "t", "o", " ", "t", "h", "e", " ", "s", "e", "a", "r", "c", "h", " ", "f", "i", "e", "l", "d">>,
                       <<"s", "h", "o", "r", "t", " ", "o", "n", "e">>,
                       <<"S", "i", "g", "n", " ", "u", "p", " ", "f", "o", "r", "m", " ", "i", "s", " ", "u", "n", "c", "l", "e", "a", "r", ",", " ", "b", "u", "t", " ", "n", "i", "c", "e", " ", "a", "n", "d", " ", "t", "i", "d", "y">>>>,
     userQuote |-> "hm"]

(* a complaint, and a longer one that contains the whole of it *)
EchoEvaluation ==
    [result |-> "partial", reality |-> "the menu was not found",
     notes |-> <<<<"T", "h", "e", " ", "m", "e", "n", "u", " ", "i", "s", " ", "m", "i", "s", "s", "i", "n", "g">>,
                 <<"R", "e", "a", "l", "l", "y", ",", " ", "t", "h", "e", " ", "m", "e", "n", "u", " ", "i", "s", " ", "m", "i", "s", "s", "i", "n", "g", " ", "f", "r", "o", "m", " ", "v", "i", "e", "w">>>>,
     suggestions |-> <<>>, userQuote |-> ""]

JsonEvaluations ==
    {SlowEvaluation(0, "unmet"), SlowEvaluation(11, "partial"), BusyEvaluation,
     MixedEvaluation, EchoEvaluation}

(* the context of a full run: every step but the last one is folded in *)
RECURSIVE foldContext(_, _)
foldContext(ctx, stepList) ==
    IF Len(stepList) <= 1 THEN ctx
    ELSE foldContext(updateContext(ctx, Head(stepList), <<"after step", Head(stepList).stepNumber>>),
                     Tail(stepList))

(* the report runSession assembles after a full run with these evaluations *)
reportOf(evaluations) ==
    LET cfg == [(CHOOSE c \in Configs : c.jsonOutputPath) EXCEPT !.maxSteps = Len(evaluations)]
        stepList == [i \in 1..Len(evaluations) |->
                        stepResult(i, [NoStep EXCEPT !.timestamp = i * MsPerSecond,
                                                     !.action = ClickAction],
                                   evaluations[i])]
        ctx == foldContext(createInitialContext(cfg.intent, "a ticket shop"), stepList)
    IN assembleReport(cfg, 0, (Len(evaluations) + 1) * MsPerSecond, stepList, ctx,
                      [inputTokens |-> 0, outputTokens |-> 0])

JsonInputs ==
    {reportOf(evaluations) :
        evaluations \in UNION { [1..n -> JsonEvaluations] : n \in 1..MaxJsonSteps }}

InitJson ==
    /\ \E r \in JsonInputs :
          /\ config = r.config
          /\ report = <<r>>
          /\ steps = r.steps
          /\ endTime = r.endTime
    /\ deps = [llm |-> AnyLLM]
    /\ pc = "saveJson"
    /\ now = endTime
    /\ startTime = 0
    /\ sessionStartTime = 0
    /\ stepNumber = config.maxSteps + 1
    /\ context = NoContext
    /\ tracker = [inputTokens |-> 0, outputTokens |-> 0]
    /\ cur = NoStep
    /\ browser = [launchCalls |-> 1, closeCalls |-> 1, open |-> FALSE]
    /\ exitLog = "none"
    /\ outcome = [kind |-> "pending", error |-> ""]
    /\ session = [NoSession EXCEPT !.status = "running"]
    /\ other = <<>>
    /\ scoreIn = <<>>
    /\ scoreOut = <<>>
    /\ InitText
    /\ InitSide

(* executeSession: session.jsonReport = buildJsonReport(report) *)
BuildJsonReport ==
    /\ pc = "saveJson"
    /\ session.jsonReport = <<>>
    /\ session' = [session EXCEPT !.jsonReport = <<buildJsonReport(report[1])>>]
    /\ UNCHANGED <<config, deps, pc, now, startTime, sessionStartTime, endTime, stepNumber,
                   steps, context, tracker, cur, browser, exitLog, report, outcome, other,
                   scoreVars, textVars, sideVars>>

NextJson == BuildJsonReport

SpecJson == InitJson /\ [][NextJson]_vars

----------------------------------------------------------------------------
(* withRetry with every choice of options and every behaviour of fn *)

sessionVars == <<config, deps, runVars, other, scoreVars, textVars>>

InitRetry ==
    /\ config = CHOOSE c \in Configs : TRUE
    /\ deps = [llm |-> AnyLLM]
    /\ InitRun
    /\ other = <<>>
    /\ scoreIn = <<>>
    /\ scoreOut = <<>>
    /\ InitText
    /\ retry \in {NoRetry(options) : options \in RetryOptions}
    /\ cli = NoCli
    /\ InitNoServer

(* withRetry(fn, options) up to its first await *)
WithRetry ==
    /\ retry.pc = "idle"
    /\ retry' = loopHead([retry EXCEPT !.attempt = 1])
    /\ UNCHANGED <<sessionVars, cli, serverVars, usageLog, heap>>

(* return await fn() *)
FnResolves ==
    /\ retry.pc = "fn"
    /\ \E v \in FnValues :
          retry' = [retry EXCEPT !.pc = "resolved", !.inFlight = @ - 1,
                                 !.settled = Append(@, [status |-> "fulfilled", value |-> v]),
                                 !.result = <<v>>]
    /\ UNCHANGED <<sessionVars, cli, serverVars, usageLog, heap>>

(* fn() rejects: the catch block *)
FnRejects ==
    /\ retry.pc = "fn"
    /\ \E e \in FnThrows(retry.calls) :
          retry' = catchBlock([retry EXCEPT !.inFlight = @ - 1,
                                            !.settled = Append(@, [status |-> "rejected",
                                                                   value |-> e])], e)
    /\ UNCHANGED <<sessionVars, cli, serverVars, usageLog, heap>>

(* await sleep(delay) is over: attempt++ and the loop head *)
SleepOver ==
    /\ retry.pc = "sleep"
    /\ retry' = loopHead([retry EXCEPT !.attempt = @ + 1])
    /\ UNCHANGED <<sessionVars, cli, serverVars, usageLog, heap>>

NextRetry == WithRetry \/ FnResolves \/ FnRejects \/ SleepOver

SpecRetry == InitRetry /\ [][NextRetry]_vars

----------------------------------------------------------------------------
(* A session whose LLM collaborator is the claude-cli provider: each of    *)
(* the four structured calls of executeStep is carried out by the          *)
(* provider's retry wrapper before the step goes on.                       *)

(* the operation executeStep awaits at this position *)
OperationAt(position) ==
    CASE position = "analyze" -> "analyzeScreen"
      [] position = "expect" -> "formulateExpectation"
      [] position = "decide" -> "decideAction"
      [] position = "evaluate" -> "evaluateResult"
      [] OTHER -> ""

InitCli ==
    /\ config \in Configs
    /\ config.maxSteps = 2
    /\ deps = [llm |-> TerseLLM]
    /\ InitRun
    /\ other = <<>>
    /\ scoreIn = <<>>
    /\ scoreOut = <<>>
    /\ InitText
    /\ InitSide

(* executeStep calls the operation *)
CallOperation ==
    /\ OperationAt(pc) # ""
    /\ cli.call # <<stepNumber, pc>>
    /\ cli' = callOperation(OperationAt(pc), <<stepNumber, pc>>)
    /\ UNCHANGED <<sessionVars, retry, serverVars, usageLog, heap>>

(* expectAndDecide, which executeStep does not use, called on its own *)
CallExpectAndDecide ==
    /\ pc = "pending"
    /\ cli.pc = "idle"
    /\ cli' = callOperation("expectAndDecide", <<0, "direct">>)
    /\ UNCHANGED <<sessionVars, retry, serverVars, usageLog, heap>>

(* saveImageToTmp: the retry wrapper starts, or the operation rejects *)
SaveImageToTmp ==
    /\ cli.pc = "saveImage"
    /\ \/ cli' = [cli EXCEPT !.pc = "call", !.attempt = 1, !.calls = 1]
       \/ cli' = [cli EXCEPT !.pc = "rejected",
                             !.result = <<[name |-> "Error", message |-> "ENOSPC"]>>]
    /\ UNCHANGED <<sessionVars, retry, serverVars, usageLog, heap>>

(* callClaudeCLI settles: by its close or error event, or by its timer *)
CliSettles ==
    /\ cli.pc = "call"
    /\ \E settlement \in CliSettlements : cli' = afterSettlement(cli, settlement)
    /\ UNCHANGED <<sessionVars, retry, serverVars, usageLog, heap>>

(* the await of executeStep is over: with the operation's value the step   *)
(* goes on (or fails in logger.saveLLMResponse), with its error the call   *)
(* throws                                                                  *)
Settled(position) ==
    /\ pc = position
    /\ cli.call = <<stepNumber, pc>>
    /\ cli.pc \in {"resolved", "rejected"}

Thrown == cli.pc = "rejected" => (pc' = "close" /\ tracker' = tracker)

CliAnalyzeScreen == Settled("analyze") /\ AnalyzeScreen /\ Thrown
CliFormulateExpectation == Settled("expect") /\ FormulateExpectation /\ Thrown
CliDecideAction == Settled("decide") /\ DecideAction /\ Thrown
CliEvaluateResult == Settled("evaluate") /\ EvaluateResult /\ Thrown

NextCli ==
    \/ ExecuteSession
    \/ Launch
    \/ Navigate
    \/ InitialCapture
    \/ GetPageContext
    \/ LoopEnd
    \/ TimeoutBreak
    \/ BudgetBreak
    \/ StepStart
    \/ CaptureBefore
    \/ CallOperation
    \/ CallExpectAndDecide
    \/ SaveImageToTmp
    \/ CliSettles
    \/ CliAnalyzeScreen
    \/ CliFormulateExpectation
    \/ CliDecideAction
    \/ ExecuteAction
    \/ Settle
    \/ CaptureAfter
    \/ CliEvaluateResult
    \/ SummarizeContext
    \/ Close
    \/ Save
    \/ SaveJson

SpecCli == InitCli /\ [][NextCli]_vars /\ WF_vars(CliSettles) /\ WF_vars(SaveImageToTmp)

----------------------------------------------------------------------------
(* Positions of the await chain *)

StepPcs == {"capture", "analyze", "expect", "decide", "act", "settle",
            "captureAfter", "evaluate"}
LoopPcs == StepPcs \cup {"loop", "summarize"}
AfterLoopPcs == {"close", "save", "saveJson"}

(* the step loop was reached and has ended *)
LoopEnded ==
    \/ pc \in AfterLoopPcs
    \/ /\ pc = "done"
       /\ \/ outcome.kind = "returned"
          \/ outcome.error \in {"close failed", "save failed"}

----------------------------------------------------------------------------
(* The server: the registry, the four routes, the cleanup timer and the    *)
(* executeSession task of each session, with runSession as one awaited     *)
(* call.  A handler runs from its request to its reply; executeSession     *)
(* runs to its await inside the POST handler and, once runSession has      *)
(* settled, statement by statement to its end with nothing in between.     *)

MaxSessions == 2
MaxClockTicks == 2
MaxProgress == 2

serverAt(environments) ==
    /\ config = CHOOSE c \in Configs : TRUE
    /\ deps = [llm |-> AnyLLM]
    /\ InitRun
    /\ other = <<>>
    /\ scoreIn = <<>>
    /\ scoreOut = <<>>
    /\ InitText
    /\ retry = NoRetry([attempts |-> Undefined, delayMs |-> Undefined, backoff |-> Undefined])
    /\ cli = NoCli
    /\ sessions = <<>>
    /\ tasks = <<>>
    /\ env \in environments
    /\ uuids = 0
    /\ clock = 0
    /\ exchange = NoExchange
    /\ runs = NoRuns
    /\ usageLog = <<>>
    /\ heap = NoHeap

InitServer ==
    serverAt({[API_KEY |-> Undefined, LLM_PROVIDER |-> Undefined],
              [API_KEY |-> <<Key>>, LLM_PROVIDER |-> Undefined],
              [API_KEY |-> Undefined, LLM_PROVIDER |-> <<"openai">>]})

(* no executeSession is between two of its statements *)
Quiet == \A id \in DOMAIN tasks : tasks[id] # "rendering"

Reply(route, headers, body, id, code, payload) ==
    exchange' = [turn |-> ~exchange.turn, route |-> route, headers |-> headers,
                 body |-> body, id |-> id, code |-> code, payload |-> payload]

NoBody == [type |-> "undefined", value |-> <<>>]

(* POST /sessions, with executeSession up to its await or to the throw of  *)
(* createLLMProvider, which the handler's catch(() => {}) swallows         *)
postSessions(requests) ==
    /\ Quiet
    /\ \E r \in DOMAIN requests :
          LET headers == requests[r][1]
              body == requests[r][2]
              validation == validateCreateRequest(body)
              sessionId == uuids + 1
          IN IF ~authenticate(env.API_KEY, headers)
             THEN /\ Reply("POST /sessions", headers, body, 0, 401, unauthorized)
                  /\ UNCHANGED <<sessions, tasks, uuids, runs>>
             ELSE IF ~validation.valid
             THEN /\ Reply("POST /sessions", headers, body, 0, 400,
                           [error |-> validation.error])
                  /\ UNCHANGED <<sessions, tasks, uuids, runs>>
             ELSE /\ uuids < MaxSessions
                  /\ uuids' = sessionId
                  /\ sessions' = sessions @@
                        (sessionId :>
                            LET started == startSession(newSession(sessionId, validation.data,
                                                                   clock), clock)
                            IN IF createLLMProviderThrows(env.LLM_PROVIDER) THEN started
                               ELSE startProgress(started))
                  /\ runs' = createRun(runs, sessionId,
                                       createLLMProviderThrows(env.LLM_PROVIDER))
                  /\ tasks' = tasks @@
                        (sessionId :> IF createLLMProviderThrows(env.LLM_PROVIDER)
                                      THEN "aborted" ELSE "awaiting")
                  /\ Reply("POST /sessions", headers, body, 0, 201,
                           [sessionId |-> sessionId, status |-> "pending"])
    /\ UNCHANGED <<env, clock, sessionVars, retry, cli, usageLog, heap>>

(* GET /sessions/:id *)
getSession(Headers_) ==
    /\ Quiet
    /\ \E h \in DOMAIN Headers_, id \in 1..(MaxSessions + 1) : LET headers == Headers_[h] IN
          IF ~authenticate(env.API_KEY, headers)
          THEN Reply("GET /sessions/:id", headers, NoBody, id, 401, unauthorized)
          ELSE IF id \notin DOMAIN sessions
          THEN Reply("GET /sessions/:id", headers, NoBody, id, 404,
                     [error |-> "Session not found"])
          ELSE Reply("GET /sessions/:id", headers, NoBody, id, 200, sessions[id])
    /\ UNCHANGED <<sessions, tasks, env, uuids, clock, runs, sessionVars, retry, cli, usageLog, heap>>

(* GET /sessions *)
listSessions(Headers_) ==
    /\ Quiet
    /\ \E h \in DOMAIN Headers_ : LET headers == Headers_[h] IN
          IF ~authenticate(env.API_KEY, headers)
          THEN Reply("GET /sessions", headers, NoBody, 0, 401, unauthorized)
          ELSE LET order == newestFirst(sessions, DOMAIN sessions)
               IN Reply("GET /sessions", headers, NoBody, 0, 200,
                        [i \in 1..Len(order) |-> summaryItem(sessions[order[i]])])
    /\ UNCHANGED <<sessions, tasks, env, uuids, clock, runs, sessionVars, retry, cli, usageLog, heap>>

(* GET /health *)
health(Headers_) ==
    /\ Quiet
    /\ \E h \in DOMAIN Headers_ : LET headers == Headers_[h] IN
          Reply("GET /health", headers, NoBody, 0, 200, [status |-> "ok"])
    /\ UNCHANGED <<sessions, tasks, env, uuids, clock, runs, sessionVars, retry, cli, usageLog, heap>>

(* a step of the awaited runSession: logger.step and the usage of a call *)
RunProgress ==
    /\ Quiet
    /\ \E id \in DOMAIN tasks, usage \in Usages :
          /\ tasks[id] = "awaiting"
          /\ sessions[id].progress[1].currentStep < MaxProgress
          /\ sessions' = [sessions EXCEPT ![id] =
                              loggerStep(@, @.progress[1].currentStep + 1, "Analyzing screen...")]
          /\ runs' = stepRun(runs, id, usage)
    /\ UNCHANGED <<tasks, env, uuids, clock, exchange, sessionVars, retry, cli, usageLog, heap>>

(* the awaited runSession of a session settles *)
RunSessionSettles ==
    /\ Quiet
    /\ \E id \in DOMAIN tasks, resolved \in BOOLEAN :
          /\ tasks[id] = "awaiting"
          /\ sessions' = [sessions EXCEPT ![id] = runSessionSettled(@, resolved, clock)]
          /\ tasks' = [tasks EXCEPT ![id] = IF resolved THEN "rendering" ELSE "ended"]
    /\ UNCHANGED <<env, uuids, clock, exchange, runs, sessionVars, retry, cli, usageLog, heap>>

(* the two renderings that follow in the same turn *)
RenderReports ==
    /\ \E id \in DOMAIN tasks, rendering \in RenderOutcomes :
          /\ tasks[id] = "rendering"
          /\ sessions' = [sessions EXCEPT ![id] = renderReports(@, rendering, clock)]
          /\ tasks' = [tasks EXCEPT ![id] = "ended"]
    /\ UNCHANGED <<env, uuids, clock, exchange, runs, sessionVars, retry, cli, usageLog, heap>>

(* the callback of startCleanupInterval *)
Cleanup ==
    /\ Quiet
    /\ LET kept == {id \in DOMAIN sessions : ~expired(sessions[id], clock)}
       IN /\ sessions' = [id \in kept |-> sessions[id]]
          /\ tasks' = [id \in kept |-> tasks[id]]
    /\ UNCHANGED <<env, uuids, clock, exchange, runs, sessionVars, retry, cli, usageLog, heap>>

(* time passes *)
ClockTick ==
    /\ Quiet
    /\ clock < MaxClockTicks * SESSION_TTL_MS
    /\ clock' = clock + SESSION_TTL_MS
    /\ UNCHANGED <<sessions, tasks, env, uuids, exchange, runs, sessionVars, retry, cli, usageLog, heap>>

(* The life of sessions: few kinds of requests, the clock and the cleanup *)
FewHeaders == <<NoHeaders, KeyHeaders>>
FewRequests ==
    <<<<NoHeaders, MinimalBody>>, <<KeyHeaders, FullBody>>, <<KeyHeaders, NotObjects[1]>>>>

PostSessions == postSessions(FewRequests)
GetSession == getSession(FewHeaders)
ListSessions == listSessions(FewHeaders)
Health == health(FewHeaders)

NextServer ==
    \/ PostSessions
    \/ GetSession
    \/ ListSessions
    \/ Health
    \/ RunSessionSettles
    \/ RenderReports
    \/ Cleanup
    \/ ClockTick

SpecServer == InitServer /\ [][NextServer]_vars

(* Several sessions running at once: their steps in any order *)
NextRuns ==
    \/ PostSessions
    \/ RunProgress
    \/ RunSessionSettles
    \/ RenderReports

SpecRuns == InitServer /\ [][NextRuns]_vars

(* The requests: every kind of headers and body, while the sessions run *)
InitRequests == serverAt([API_KEY : ApiKeys, LLM_PROVIDER : {Undefined}])

AnyPostSessions == postSessions(PostRequests)
AnyGetSession == getSession(Headers)
AnyListSessions == listSessions(Headers)
AnyHealth == health(Headers)

NextRequests ==
    \/ AnyPostSessions
    \/ AnyGetSession
    \/ AnyListSessions
    \/ AnyHealth

SpecRequests == InitRequests /\ [][NextRequests]_vars

----------------------------------------------------------------------------
(* generateSummary on step lists and issue lists with repeated strings:    *)
(* the session stands before browser.close() with them, and Close          *)
(* assembles the report                                                     *)

MaxSummarySteps == 2
MaxIssues == 3

SummarySuggestions ==
    {<<>>, <<"improve contrast", "improve contrast">>, <<"improve contrast", "add labels">>,
     <<"add labels", "Improve contrast", "add labels">>}
SummaryQuotes == {"", "This is hard", "this is hard"}
SummaryEvaluations ==
    [result : {"met"}, reality : {"as expected"}, notes : {<<>>},
     suggestions : SummarySuggestions, userQuote : SummaryQuotes]
SummaryIssues == {"broken button", "slow load", "Slow load"}

InitSummary ==
    /\ config = CHOOSE c \in Configs : c.maxSteps = MaxSummarySteps
    /\ deps = [llm |-> AnyLLM]
    /\ pc = "close"
    /\ now = 0
    /\ startTime = 0
    /\ sessionStartTime = 0
    /\ endTime = 0
    /\ \E n \in 0..MaxSummarySteps : \E evaluations \in [1..n -> SummaryEvaluations] :
          /\ steps = [i \in 1..n |-> stepResult(i, [NoStep EXCEPT !.action = ClickAction],
                                                evaluations[i])]
          /\ stepNumber = n + 1
    /\ \E n \in 0..MaxIssues : \E issues \in [1..n -> SummaryIssues] :
          context = [NoContext EXCEPT !.issuesFound = issues]
    /\ tracker = [inputTokens |-> 0, outputTokens |-> 0]
    /\ cur = NoStep
    /\ browser = [launchCalls |-> 1, closeCalls |-> 1, open |-> TRUE]
    /\ exitLog = "none"
    /\ report = <<>>
    /\ outcome = [kind |-> "pending", error |-> ""]
    /\ session = [NoSession EXCEPT !.status = "running"]
    /\ other = <<>>
    /\ scoreIn = <<>>
    /\ scoreOut = <<>>
    /\ InitText
    /\ InitSide

NextSummary == Close

SpecSummary == InitSummary /\ [][NextSummary]_vars

----------------------------------------------------------------------------
(* The cost tracker on its own: addUsage calls on a tracker with a budget  *)
(* of 141 CZK, which 2000000 input tokens cost exactly                      *)

MaxUsageCalls == 4

LargeUsage == <<1999990, 0>>
CostUsages == {LargeUsage, <<5, 1>>, <<10, 0>>, <<0, 2>>}

InitCost ==
    /\ config = [(CHOOSE c \in Configs : TRUE) EXCEPT !.budgetCZK = 141]
    /\ deps = [llm |-> AnyLLM]
    /\ InitRun
    /\ other = <<>>
    /\ scoreIn = <<>>
    /\ scoreOut = <<>>
    /\ InitText
    /\ InitSide

(* costTracker.addUsage(input, output); the large usage once *)
AddUsage ==
    /\ Len(usageLog) < MaxUsageCalls
    /\ \E u \in CostUsages :
          /\ u = LargeUsage => \A k \in DOMAIN usageLog : usageLog[k] # LargeUsage
          /\ tracker' = addUsage(tracker, u[1], u[2])
          /\ usageLog' = Append(usageLog, u)
    /\ UNCHANGED <<config, deps, pc, now, startTime, sessionStartTime, endTime, stepNumber,
                   steps, context, cur, browser, exitLog, report, outcome, session, other,
                   scoreVars, textVars, retry, cli, serverVars, heap>>

NextCost == AddUsage

SpecCost == InitCost /\ [][NextCost]_vars

----------------------------------------------------------------------------
(* C1: the step list, and the step list of an assembled report, holds      *)
(* steps numbered 1, 2, ..., k in order, with k at most config.maxSteps.   *)
C1_StepsNumbered ==
    /\ \A i \in 1..Len(steps) : steps[i].stepNumber = i
    /\ Len(steps) <= config.maxSteps
    /\ report # <<>> =>
          /\ \A i \in 1..Len(report[1].steps) : report[1].steps[i].stepNumber = i
          /\ Len(report[1].steps) <= report[1].config.maxSteps

C1_Witness ==
    /\ outcome.kind = "returned"
    /\ config.maxSteps = 3
    /\ Len(report[1].steps) = 3

(* C2: however the step loop ends, browser.launch was called once and      *)
(* browser.close is called once, after the last step activity (never while *)
(* the loop runs) and before the report is assembled.                      *)
C2_OneLaunchOneClose ==
    /\ browser.launchCalls <= 1
    /\ browser.closeCalls <= 1
    /\ pc \in LoopPcs => (browser.launchCalls = 1 /\ browser.closeCalls = 0)
    /\ LoopEnded => (browser.launchCalls = 1 /\ browser.closeCalls = 1)
    /\ report # <<>> => browser.closeCalls = 1

C2_Witness ==
    /\ pc = "done"
    /\ outcome.kind = "returned"
    /\ exitLog = "step failed"
    /\ browser.launchCalls = 1
    /\ browser.closeCalls = 1

(* C3: once browser.launch has succeeded, browser.close has been called by *)
(* the time runSession settles, also when it settles with an exception.    *)
C3_ClosedOnEveryExit ==
    (pc = "done" /\ outcome.error # "launch failed") => browser.closeCalls = 1

(* C4: at a step boundary with the accumulated cost above budgetCZK no     *)
(* further step is executed: the loop ends with the step list as it is,    *)
(* nothing after the loop changes the list, and the report carries it.     *)
C4_OverBudgetStops ==
    /\ [][(/\ pc = "loop"
           /\ stepNumber <= config.maxSteps
           /\ (tracker.inputTokens * 3 + tracker.outputTokens * 15) * 235
                 > config.budgetCZK * 10000000)
          => (pc' = "close" /\ steps' = steps /\ stepNumber' = stepNumber)]_vars
    /\ [][(pc \in AfterLoopPcs)
          => (steps' = steps /\ pc' \in AfterLoopPcs \cup {"done"})]_vars
    /\ [](report # <<>> => report[1].steps = steps)

(* maxSteps = 3, budget 1 CZK, step 1 costs 2 CZK: a report of one step *)
C4_Witness ==
    /\ outcome.kind = "returned"
    /\ exitLog = "Budget limit reached"
    /\ config.maxSteps = 3
    /\ config.budgetCZK = 1
    /\ Len(report[1].steps) = 1
    /\ report[1].cost.totalCostCZK >= 2 * CZKScale

(* C5 as stated: no step starts when more than config.timeout seconds have *)
(* passed since the startTime of the report.                               *)
C5_NoStepAfterTimeoutSinceStartTime ==
    pc = "capture" => now - startTime <= config.timeout * 1000

(* C5 amended: no step starts when more than config.timeout seconds have   *)
(* passed since sessionStartTime, taken when the step loop is entered; a   *)
(* timeout ends the loop without an error: browser.close is called and     *)
(* runSession rejects only if the close or the saving of the report fails. *)
C5_NoStepAfterTimeoutSinceLoopStart ==
    /\ pc = "capture" => now - sessionStartTime <= config.timeout * 1000
    /\ exitLog = "Session timeout reached" =>
          /\ pc \in AfterLoopPcs \cup {"done"}
          /\ browser.closeCalls = 1
          /\ outcome.kind = "rejected" => outcome.error \in {"close failed", "save failed"}
          /\ outcome.kind = "returned" => report[1].steps = steps

C5_Witness ==
    /\ outcome.kind = "returned"
    /\ exitLog = "Session timeout reached"
    /\ Len(report[1].steps) = 1
    /\ sessionStartTime > startTime

C7_FailureIsMarked ==
    (/\ other # <<>>
     /\ other[1].exitLog = "step failed"
     /\ outcome.kind = "returned"
     /\ exitLog # "step failed")
    => \/ report # other[1].report
       \/ session.status # other[1].session.status

(* C8: the report of a session stopped by the budget or the timeout        *)
(* differs from the report of a session that stopped on an error.          *)
C8_TerminationIsMarked ==
    (/\ other # <<>>
     /\ other[1].exitLog = "step failed"
     /\ outcome.kind = "returned"
     /\ exitLog \in {"Budget limit reached", "Session timeout reached"})
    => report # other[1].report

(* C9: a failure of browser.close does not make runSession reject and does *)
(* not turn the session into status failed.                                *)
C9_CloseFailureIsNotFatal ==
    /\ ~(outcome.kind = "rejected" /\ outcome.error = "close failed")
    /\ ~(session.status = "failed" /\ session.error = "close failed")

(* C10: calculateIntuitivenessScore is 5 for the empty list and otherwise  *)
(* 10 minus the penalties (partial 1, unmet 2, surprised 1.5) clamped to   *)
(* [0, 10]; all met gives 10.  In tenths.                                  *)
CountOf(stepList, result) ==
    Cardinality({i \in 1..Len(stepList) : stepList[i].evaluation.result = result})

C10_Score ==
    scoreOut # <<>> =>
        LET penalty == 10 * CountOf(scoreIn, "partial") + 20 * CountOf(scoreIn, "unmet")
                       + 15 * CountOf(scoreIn, "surprised")
        IN /\ scoreOut[1] >= 0
           /\ scoreOut[1] <= 100
           /\ Len(scoreIn) = 0 => scoreOut[1] = 50
           /\ (Len(scoreIn) > 0 /\ penalty <= 100) => scoreOut[1] = 100 - penalty
           /\ (Len(scoreIn) > 0 /\ penalty > 100) => scoreOut[1] = 0
           /\ (Len(scoreIn) > 0 /\ CountOf(scoreIn, "met") = Len(scoreIn)) => scoreOut[1] = 100

(* six unmet steps: the penalty exceeds 10 and the score is 0 *)
C10_Witness ==
    /\ scoreOut = <<0>>
    /\ Len(scoreIn) = 6
    /\ CountOf(scoreIn, "unmet") = 6

(* C11: two step lists with the same multiset of evaluation results get    *)
(* the same score from calculateIntuitivenessScore.                        *)
C11_ScoreIgnoresOrder ==
    (other # <<>> /\ scoreOut # <<>>) =>
        /\ \A r \in EvaluationResult : CountOf(scoreIn, r) = CountOf(other[1].scoreIn, r)
        /\ scoreOut = other[1].scoreOut

(* unmet first and met last, scored again as met first and unmet last *)
C11_Witness ==
    /\ other # <<>>
    /\ scoreOut # <<>>
    /\ Len(scoreIn) = MaxScoreLen
    /\ other[1].scoreIn[1].evaluation.result = "unmet"
    /\ scoreIn[1].evaluation.result = "met"
    /\ scoreIn[Len(scoreIn)].evaluation.result = "unmet"
    /\ scoreIn # other[1].scoreIn

(* C12: the issuesFound of the report's summary is the de-duplicated list  *)
(* of the keyword-matching notes of every step of the report's step list,  *)
(* the last executed step included.                                        *)
RECURSIVE IssueNotesOf(_)
IssueNotesOf(stepList) ==
    IF stepList = <<>> THEN <<>>
    ELSE SelectSeq(Head(stepList).evaluation.notes, isIssueNote)
         \o IssueNotesOf(Tail(stepList))

C12_IssuesOfEveryStep ==
    report # <<>> =>
        report[1].summary.issuesFound = unique(IssueNotesOf(report[1].steps))

(* C13: a step whose action reports success: false still runs the settle   *)
(* wait, the second capture and the evaluation call; its StepResult is     *)
(* appended and the loop goes on to the next step.  The action result      *)
(* never ends the step: only an exception of a later call does.            *)
C13_ActionFailureIsNotFatal ==
    /\ [][pc = "act" =>
             (pc' = "settle" /\ exitLog' = "none" /\ steps' = steps
              /\ stepNumber' = stepNumber)]_vars
    /\ [][(pc = "settle" /\ ~cur.actionSuccess) =>
             /\ pc' = "captureAfter"
             /\ now' = now + config.waitBetweenActions * 1000
             /\ exitLog' = "none"]_vars
    /\ [][(pc = "captureAfter" /\ ~cur.actionSuccess) =>
             (pc' = "evaluate" \/ exitLog' = "step failed")]_vars
    /\ [][(pc = "evaluate" /\ ~cur.actionSuccess /\ exitLog' # "step failed") =>
             /\ Len(steps') = Len(steps) + 1
             /\ SubSeq(steps', 1, Len(steps)) = steps
             /\ steps'[Len(steps')].stepNumber = stepNumber
             /\ steps'[Len(steps')].action = cur.action
             /\ steps'[Len(steps')].timestamp = cur.timestamp
             /\ steps'[Len(steps')].evaluation \in Evaluations
             /\ \/ pc' = "summarize" /\ stepNumber < config.maxSteps
                \/ pc' = "loop" /\ stepNumber' = stepNumber + 1]_vars
    /\ [](~cur.actionSuccess => (pc \in {"settle", "captureAfter", "evaluate"}
                                 /\ exitLog = "none"))

(* step 1 clicked an element that is not in the snapshot; step 2 has begun *)
C13_Witness ==
    /\ pc = "capture"
    /\ stepNumber = 2
    /\ Len(steps) = 1
    /\ steps[1].action = ClickMissing
    /\ exitLog = "none"

(* C14: a fill action with a non-empty inputs list whose element ids are   *)
(* all in the snapshot of the step fills each listed field in order and    *)
(* reports success, provided the page carries the fill operations out.     *)
C14_FillFillsEveryField ==
    (/\ pc = "settle"
     /\ cur.action.action = "fill"
     /\ cur.action.inputs # <<>>
     /\ \A i \in 1..Len(cur.action.inputs) :
           \E k \in 1..Len(cur.snapshot) :
               cur.snapshot[k].id = cur.action.inputs[i].elementId
     /\ cur.pageOk)
    => /\ cur.actionSuccess
       /\ cur.ops = [i \in 1..Len(cur.action.inputs) |->
                       <<"fill", cur.action.inputs[i].elementId, cur.action.inputs[i].value>>]

(* C15: each updateContext call returns a context whose issuesFound starts *)
(* with the issuesFound it was given (nothing dropped, nothing reordered,  *)
(* the length never decreases) and continues with exactly the notes of the *)
(* step that contain an issue keyword, in note order.                      *)
HasIssueKeyword(n) == n \in {BadNote, LoudNote}

C15_IssuesOnlyGrow ==
    [][context' # context =>
          LET old == context.issuesFound
              new == context'.issuesFound
              notes == context'.lastStepResult[1].evaluation.notes
          IN /\ Len(new) >= Len(old)
             /\ SubSeq(new, 1, Len(old)) = old
             /\ SubSeq(new, Len(old) + 1, Len(new)) = SelectSeq(notes, HasIssueKeyword)
             /\ context'.stepCount = context.stepCount + 1]_vars

(* three calls: the issue of the first call is still the first issue *)
C15_Witness ==
    /\ context.stepCount = 3
    /\ Len(context.issuesFound) = 3
    /\ context.issuesFound[1] = LoudNote
    /\ context.issuesFound[3] = BadNote
    /\ context.lastStepResult[1].evaluation.notes = <<FineNote, BadNote>>

(* The notes of a step list in encounter order, trivial ones (shorter than *)
(* 15 characters) left out, each with the number of its step               *)
RECURSIVE EncounteredNotes(_)
EncounteredNotes(stepList) ==
    IF stepList = <<>> THEN <<>>
    ELSE LET step == Head(stepList)
             long == SelectSeq(step.evaluation.notes, LAMBDA n : Len(n) >= 15)
         IN [i \in 1..Len(long) |-> [step |-> step.stepNumber, text |-> long[i]]]
            \o EncounteredNotes(Tail(stepList))

IsPrefix(s, t) == Len(s) <= Len(t) /\ s = SubSeq(t, 1, Len(s))

(* a list is cut to its limit: all of it when it fits, else exactly limit *)
CutTo(emitted, full, limit) ==
    /\ IsPrefix(emitted, full)
    /\ Len(emitted) = IF Len(full) > limit THEN limit ELSE Len(full)

(* C16: buildJsonReport emits at most 20 issues, 10 positives and 10       *)
(* observations, and each emitted list is the beginning of the full list   *)
(* in encounter order (for issues: of the de-duplicated list).             *)
C16_ListsAreCapped ==
    session.jsonReport # <<>> =>
        LET json == session.jsonReport[1]
            all == EncounteredNotes(report[1].steps)
            praise == SelectSeq(all, LAMBDA n : classifyNoteSentiment(n.text) = "positive")
            plain == SelectSeq(all, LAMBDA n : classifyNoteSentiment(n.text) = "neutral")
        IN /\ Len(json.issues) <= 20
           /\ Len(json.positives) <= 10
           /\ Len(json.observations) <= 10
           /\ CutTo(json.issues, uniqueIssues(<<>>, classifyReport(report[1]).issues), 20)
           /\ CutTo([i \in 1..Len(json.positives) |-> json.positives[i].evidence],
                    [i \in 1..Len(praise) |->
                        [step |-> praise[i].step, description |-> praise[i].text]], 10)
           /\ CutTo(json.observations, plain, 10)

(* 22 different complaints, 11 praises and 11 plain remarks *)
C16_Witness ==
    /\ session.jsonReport # <<>>
    /\ Len(session.jsonReport[1].issues) = 20
    /\ Len(session.jsonReport[1].positives) = 10
    /\ Len(session.jsonReport[1].observations) = 10
    /\ Len(uniqueIssues(<<>>, classifyReport(report[1]).issues)) = 22
    /\ Len(classifyReport(report[1]).positives) = 11
    /\ Len(classifyReport(report[1]).observations) = 11

(* C17: the issue ids of one buildJsonReport output are pairwise distinct, *)
(* and so are the positive ids; an id is UX- or OK-, the first three       *)
(* characters of the category in upper case, a dash and a three-digit      *)
(* number; the first issue and the first positive have 001, and the        *)
(* numbers increase along each list, which is in encounter order: by step, *)
(* within a step notes before suggestions, session-level issues last.      *)
CategoryCode(c) ==
    CASE c = <<"f", "o", "r", "m">> -> <<"F", "O", "R">>
      [] c = <<"n", "a", "v", "i", "g", "a", "t", "i", "o", "n">> -> <<"N", "A", "V">>
      [] c = <<"p", "e", "r", "f", "o", "r", "m", "a", "n", "c", "e">> -> <<"P", "E", "R">>
      [] c = <<"a", "1", "1", "y">> -> <<"A", "1", "1">>
      [] c = <<"o", "n", "b", "o", "a", "r", "d", "i", "n", "g">> -> <<"O", "N", "B">>
      [] c = <<"c", "o", "p", "y">> -> <<"C", "O", "P">>
      [] c = <<"v", "a", "l", "i", "d", "a", "t", "i", "o", "n">> -> <<"V", "A", "L">>
      [] c = <<"f", "e", "e", "d", "b", "a", "c", "k">> -> <<"F", "E", "E">>
      [] c = <<"s", "e", "c", "u", "r", "i", "t", "y">> -> <<"S", "E", "C">>
      [] c = <<"i", "n", "t", "e", "r", "a", "c", "t", "i", "o", "n">> -> <<"I", "N", "T">>
      [] c = <<"u", "x">> -> <<"U", "X">>

ThreeDigits(n) ==
    <<Digits[(n \div 100) + 1], Digits[((n \div 10) % 10) + 1], Digits[(n % 10) + 1]>>

HasNumber(entry, prefix, n) ==
    entry.id = prefix \o CategoryCode(entry.category) \o <<"-">> \o ThreeDigits(n)

NumberOf(entry, prefix) == CHOOSE n \in 1..999 : HasNumber(entry, prefix, n)

FromSuggestion(entry) ==
    IsPrefix(<<"S", "u", "g", "g", "e", "s", "t", "i", "o", "n", " ", "f", "r", "o", "m", " ", "e", "v", "a", "l", "u", "a", "t", "i", "o", "n", ":", " ">>, entry.evidence.description)

Numbered(entries, prefix) ==
    /\ \A i \in 1..Len(entries) : \E n \in 1..999 : HasNumber(entries[i], prefix, n)
    /\ entries # <<>> => HasNumber(entries[1], prefix, 1)
    /\ \A i, j \in 1..Len(entries) :
          i < j => /\ entries[i].id # entries[j].id
                   /\ NumberOf(entries[i], prefix) < NumberOf(entries[j], prefix)

InEncounterOrder(entries) ==
    \A i, j \in 1..Len(entries) :
        i < j =>
            /\ entries[i].evidence.step = 0 => entries[j].evidence.step = 0
            /\ entries[j].evidence.step # 0 =>
                  entries[i].evidence.step <= entries[j].evidence.step

C17_IdsAreNumbered ==
    session.jsonReport # <<>> =>
        LET json == session.jsonReport[1]
        IN /\ Numbered(json.issues, <<"U", "X", "-">>)
           /\ Numbered(json.positives, <<"O", "K", "-">>)
           /\ InEncounterOrder(json.issues)
           /\ InEncounterOrder(json.positives)
           /\ \A i, j \in 1..Len(json.issues) :
                 (/\ i < j
                  /\ json.issues[i].evidence.step = json.issues[j].evidence.step
                  /\ FromSuggestion(json.issues[i]))
                 => FromSuggestion(json.issues[j])

(* two mixed steps: a note issue 001, a suggestion issue 002, the repeated *)
(* note dropped as a duplicate and the session-level issue 004; two        *)
(* positives 001 and 002                                                   *)
C17_Witness ==
    /\ session.jsonReport # <<>>
    /\ Len(session.jsonReport[1].issues) = 3
    /\ session.jsonReport[1].issues[1].id = <<"U", "X", "-", "F", "O", "R", "-", "0", "0", "1">>
    /\ FromSuggestion(session.jsonReport[1].issues[2])
    /\ session.jsonReport[1].issues[3].id = <<"U", "X", "-", "N", "A", "V", "-", "0", "0", "4">>
    /\ session.jsonReport[1].issues[3].evidence.step = 0
    /\ Len(session.jsonReport[1].positives) = 2
    /\ session.jsonReport[1].positives[2].id = <<"O", "K", "-", "U", "X", "-", "0", "0", "2">>

(* C18 as stated: each step's result is its evaluation result with unmet   *)
(* renamed to failed, total_steps is the number of steps, and met, partial *)
(* and failed count the steps whose result is met, partial and failed.     *)
StepsWith(json, results) ==
    Cardinality({i \in 1..Len(json.steps) : json.steps[i].result \in results})

ResultsRenamed(json) ==
    /\ Len(json.steps) = Len(report[1].steps)
    /\ \A i \in 1..Len(json.steps) :
          json.steps[i].result =
              IF report[1].steps[i].evaluation.result = "unmet" THEN "failed"
              ELSE report[1].steps[i].evaluation.result
    /\ json.summary.total_steps = Len(report[1].steps)
    /\ json.summary.met = StepsWith(json, {"met"})
    /\ json.summary.partial = StepsWith(json, {"partial"})

C18_FailedCountsFailed ==
    session.jsonReport # <<>> =>
        /\ ResultsRenamed(session.jsonReport[1])
        /\ session.jsonReport[1].summary.failed = StepsWith(session.jsonReport[1], {"failed"})

(* C18 amended: summary.failed counts the steps whose result is failed or  *)
(* surprised, so that met, partial and failed add up to total_steps.       *)
C18_FailedCountsSurprisedToo ==
    session.jsonReport # <<>> =>
        /\ ResultsRenamed(session.jsonReport[1])
        /\ session.jsonReport[1].summary.failed
              = StepsWith(session.jsonReport[1], {"failed", "surprised"})
        /\ session.jsonReport[1].summary.met + session.jsonReport[1].summary.partial
              + session.jsonReport[1].summary.failed
              = session.jsonReport[1].summary.total_steps

(* an unmet, a surprised and a met step: failed is 2 *)
C18_Witness ==
    /\ session.jsonReport # <<>>
    /\ Len(report[1].steps) = 3
    /\ report[1].steps[1].evaluation.result = "unmet"
    /\ report[1].steps[2].evaluation.result = "surprised"
    /\ report[1].steps[3].evaluation.result = "met"
    /\ session.jsonReport[1].steps[1].result = "failed"
    /\ session.jsonReport[1].steps[2].result = "surprised"
    /\ session.jsonReport[1].summary
          = [total_steps |-> 3, met |-> 1, partial |-> 0, failed |-> 2]

(* C19: with n negative and p positive keywords found in the note,         *)
(* classifyNoteSentiment answers negative when a contrastive conjunction   *)
(* is present and n > 0; otherwise negative if n > p, positive if p > n,   *)
(* neutral if n = p = 0 and negative for every other tie.                  *)
NegativeFound(text) ==
    Cardinality({k \in 1..Len(NEGATIVE_KEYWORDS) :
                    includes(toLowerCase(text), NEGATIVE_KEYWORDS[k])})

PositiveFound(text) ==
    Cardinality({k \in 1..Len(POSITIVE_KEYWORDS) :
                    includes(toLowerCase(text), POSITIVE_KEYWORDS[k])})

ConjunctionFound(text) ==
    \E c \in {<<" ", "a", "l", "e", " ">>, <<" ", "v", "U+0161", "a", "k", " ">>, <<",", " ", "b", "u", "t", " ">>} : includes(toLowerCase(text), c)

C19_Sentiment ==
    sentimentOut # "" =>
        LET n == NegativeFound(noteIn)
            p == PositiveFound(noteIn)
        IN sentimentOut =
              IF ConjunctionFound(noteIn) /\ n > 0 THEN "negative"
              ELSE IF n > p THEN "negative"
              ELSE IF p > n THEN "positive"
              ELSE IF n = 0 /\ p = 0 THEN "neutral"
              ELSE "negative"

(* "good clear , but slow": more positive than negative keywords, and a but *)
C19_Witness ==
    /\ sentimentOut = "negative"
    /\ ConjunctionFound(noteIn)
    /\ PositiveFound(noteIn) > NegativeFound(noteIn)
    /\ NegativeFound(noteIn) > 0

(* C20: generateAcceptanceCriteria returns between 2 and 5 criteria,       *)
(* whichever templates match; when the templates produced fewer than 2,    *)
(* the list is the template criteria followed by the two generic ones,     *)
(* and otherwise it is the first criteria of the templates and no generic  *)
(* criterion is part of it.                                                *)
C20_TwoToFiveCriteria ==
    criteriaOut # <<>> =>
        LET produced == templateCriteria(issueIn, categoryIn)
        IN /\ Len(criteriaOut) >= 2
           /\ Len(criteriaOut) <= 5
           /\ Len(produced) < 2 => criteriaOut = produced \o genericCriteria
           /\ Len(produced) >= 2 =>
                 /\ \A i \in 1..Len(criteriaOut) :
                       /\ criteriaOut[i] = produced[i]
                       /\ criteriaOut[i] # genericCriteria[1]
                       /\ criteriaOut[i] # genericCriteria[2]
                 /\ Len(criteriaOut) = IF Len(produced) > 5 THEN 5 ELSE Len(produced)

(* password rules on a small field: six template criteria, five returned *)
C20_Witness ==
    /\ Len(criteriaOut) = 5
    /\ Len(templateCriteria(issueIn, categoryIn)) = 6
    /\ issueIn = <<"p", "a", "s", "s", "w", "o", "r", "d", " ", "p", "r", "a", "v", "i", "d", "l", " ", "s", "m", "a", "l", "l", " ">>

(* C21: withRetry with attempts n >= 1 has at most one call of fn in       *)
(* flight, never calls fn more than n times and never again after a        *)
(* success; it resolves with the value of the first successful call, the   *)
(* k-th with k <= n, after exactly k calls, and rejects after exactly n    *)
(* failed calls with the error of the last call, wrapped in an Error when  *)
(* a non-Error was thrown.                                                 *)
FailedCalls(r, upTo) == \A i \in 1..upTo : r.settled[i].status = "rejected"

C21_WithRetry ==
    LET n == mergeOptions(retry.options).attempts
        k == Len(retry.settled)
    IN n >= 1 =>
         /\ retry.inFlight \in {0, 1}
         /\ retry.calls = k + retry.inFlight
         /\ retry.calls <= n
         /\ FailedCalls(retry, k - 1)
         /\ retry.pc \in {"fn", "sleep", "resolved", "rejected"} => retry.calls >= 1
         /\ (k >= 1 /\ retry.settled[k].status = "fulfilled") => retry.pc = "resolved"
         /\ retry.pc = "resolved" =>
               /\ retry.inFlight = 0
               /\ retry.settled[k].status = "fulfilled"
               /\ retry.result = <<retry.settled[k].value>>
         /\ retry.pc = "rejected" =>
               /\ retry.inFlight = 0
               /\ k = n
               /\ FailedCalls(retry, n)
               /\ retry.result # Undefined
               /\ retry.result[1].kind = "Error"
               /\ retry.result[1].message = retry.settled[n].value.message

(* three calls that threw, the last one a string, and the rejection *)
C21_Witness ==
    /\ retry.pc = "rejected"
    /\ mergeOptions(retry.options).attempts = 3
    /\ retry.calls = 3
    /\ retry.settled[3].value.kind = "string"
    /\ retry.settled[1].value.kind = "Error"

(* C22: a structured operation of the claude-cli provider calls the CLI at *)
(* most 3 times; it resolves with the parsed output of the first attempt   *)
(* that succeeds, every earlier attempt having failed; when 3 attempts     *)
(* have failed it rejects with the error of the third; executeStep's await *)
(* of a rejected operation throws, the step is not recorded and no further *)
(* step starts; and an operation that was called settles.                  *)
CliRetryBounded ==
    /\ cli.calls <= 3
    /\ cli.failures <= cli.calls
    /\ cli.pc = "call" => cli.failures = cli.calls - 1 /\ cli.attempt = cli.calls
    /\ cli.pc = "resolved" =>
          /\ cli.failures = cli.calls - 1
          /\ cli.calls >= 1
          /\ \E settlement \in CliSettlements :
                /\ settlement.resolved
                /\ parseJsonResponse(settlement.text).ok
                /\ cli.result = <<parseJsonResponse(settlement.text).data>>
    /\ cli.pc = "rejected" =>
          /\ cli.calls \in {0, 3}
          /\ cli.calls = 3 =>
                /\ cli.failures = 3
                /\ cli.result = cli.lastError
                /\ cli.lastError[1].message[2] = 3
    /\ exitLog = "step failed" => pc \in AfterLoopPcs \cup {"done"}

CliErrorReachesLoop ==
    (cli.pc = "rejected" /\ cli.call = <<stepNumber, pc>> /\ pc' # pc) =>
        /\ pc' = "close"
        /\ exitLog' = "step failed"
        /\ steps' = steps
        /\ stepNumber' = stepNumber

C22_BoundedRetry ==
    /\ []CliRetryBounded
    /\ [][CliErrorReachesLoop]_vars
    /\ (cli.pc \in {"saveImage", "call"}) ~> (cli.pc \in {"resolved", "rejected"})

(* evaluateResult of step 1 failed three times and the run ended there *)
C22_Witness ==
    /\ cli.pc = "rejected"
    /\ cli.op = "evaluateResult"
    /\ cli.calls = 3
    /\ cli.lastError[1].name = "SyntaxError"
    /\ exitLog = "step failed"
    /\ steps = <<>>
    /\ pc = "done"

(* C23: POST /sessions stores the new session and replies 201 with its id  *)
(* and status pending while the run has not finished; no request removes   *)
(* an entry, only the cleanup does, and only an expired one; an authorized *)
(* fetch answers 404 exactly for an id that is not in the registry and     *)
(* otherwise the entry; and when the awaited runSession settles, between   *)
(* requests, the outcome is written into the entry.                        *)
Replied == exchange'.turn # exchange.turn
CreatedStored ==
    (Replied /\ exchange'.code = 201) =>
        LET id == exchange'.payload.sessionId
        IN /\ exchange'.payload.status = "pending"
           /\ id \notin DOMAIN sessions
           /\ id \in DOMAIN sessions'
           /\ ~isTerminal(sessions'[id])
           /\ tasks'[id] \in {"awaiting", "aborted"}
RemovedByCleanup ==
    \A id \in DOMAIN sessions :
        /\ Replied => (id \in DOMAIN sessions' /\ sessions'[id] = sessions[id])
        /\ id \notin DOMAIN sessions' =>
              /\ sessions[id].status \in {"completed", "failed"}
              /\ clock - sessions[id].createdAt > SESSION_TTL_MS
FetchFinds ==
    (/\ Replied
     /\ exchange'.route = "GET /sessions/:id"
     /\ authenticate(env.API_KEY, exchange'.headers)) =>
        IF exchange'.id \in DOMAIN sessions
        THEN exchange'.code = 200 /\ exchange'.payload = sessions[exchange'.id]
        ELSE exchange'.code = 404
OutcomeWritten ==
    \A id \in DOMAIN tasks :
        (tasks[id] = "awaiting" /\ id \in DOMAIN tasks' /\ tasks'[id] # "awaiting") =>
            /\ ~Replied
            /\ id \in DOMAIN sessions'
            /\ isTerminal(sessions'[id])
            /\ sessions'[id].completedAt = <<clock>>
StatusMoves ==
    {<<"pending", "running">>, <<"running", "completed">>, <<"running", "failed">>}
C24_StatusOrder ==
    [][\A id \in DOMAIN sessions' :
          IF id \in DOMAIN sessions
          THEN \/ sessions'[id].status = sessions[id].status
               \/ <<sessions[id].status, sessions'[id].status>> \in StatusMoves
          ELSE sessions'[id].status \in {"pending", "running"}]_vars

(* C25: with an API key configured, a request to POST /sessions,           *)
(* GET /sessions/:id or GET /sessions whose x-api-key header is not the    *)
(* key and whose Authorization header is not "Bearer " followed by the key *)
(* is answered 401 with the error alone and leaves the registry as it was; *)
(* a request that carries the key, and every request when no key is        *)
(* configured, is not answered 401; GET /health is always answered 200.    *)
KeyConfigured == env.API_KEY # Undefined /\ env.API_KEY[1] # <<>>
KeyGiven(headers) ==
    \/ headers.xApiKey.type = "string" /\ headers.xApiKey.value = env.API_KEY[1]
    \/ /\ headers.authorization.type = "string"
       /\ headers.authorization.value = <<"B", "e", "a", "r", "e", "r", " ">> \o env.API_KEY[1]
C25_KeyRequired ==
    [][Replied =>
          IF exchange'.route = "GET /health" THEN exchange'.code = 200
          ELSE IF KeyConfigured /\ ~KeyGiven(exchange'.headers)
          THEN /\ exchange'.code = 401
               /\ exchange'.payload = unauthorized
               /\ sessions' = sessions
               /\ tasks' = tasks
          ELSE exchange'.code # 401]_vars
C25_Witness ==
    /\ KeyConfigured
    /\ exchange.route = "GET /sessions/:id"
    /\ exchange.id \in DOMAIN sessions
    /\ exchange.headers.authorization.type = "string"
    /\ exchange.code = 401

(* C26: a POST /sessions whose body fails validation is answered 400 with  *)
(* an error, and the registry and the tasks stay as they were; every entry *)
(* of the registry has maxSteps in 1..50, timeout in 10..3600,             *)
(* waitBetweenActions in 1..60 and budgetCZK >= 1.                         *)
between(v, low, high) == v.type = "number" /\ low <= v.value /\ v.value <= high
given(body, name) == body.type = "object" /\ body.value[name] # Undefined
BodyFails(body) ==
    \/ body.type # "object"
    \/ ~given(body, "url") \/ ~given(body, "persona")
    \/ \E name \in {"url", "persona"} :
          given(body, name) /\ (body.value[name][1].type # "string"
                                \/ \A i \in DOMAIN body.value[name][1].value :
                                       body.value[name][1].value[i] = " ")
    \/ given(body, "url") /\ body.value.url[1].type = "string"
          /\ ~validURL(body.value.url[1].value)
    \/ given(body, "maxSteps") /\ ~between(body.value.maxSteps[1], 1, 50)
    \/ given(body, "timeout") /\ ~between(body.value.timeout[1], 10, 3600)
    \/ given(body, "waitBetweenActions") /\ ~between(body.value.waitBetweenActions[1], 1, 60)
    \/ given(body, "budgetCZK") /\ (body.value.budgetCZK[1].type # "number"
                                     \/ body.value.budgetCZK[1].value < 1)
    \/ given(body, "credentials") /\ body.value.credentials[1].type # "object"
InvalidRefused ==
    (/\ Replied
     /\ exchange'.route = "POST /sessions"
     /\ exchange'.code # 401
     /\ BodyFails(exchange'.body)) =>
        /\ exchange'.code = 400
        /\ DOMAIN exchange'.payload = {"error"}
        /\ sessions' = sessions
        /\ tasks' = tasks
        /\ uuids' = uuids
WithinLimits(c) ==
    /\ c.maxSteps \in 1..50
    /\ c.timeout \in 10..3600
    /\ c.waitBetweenActions \in 1..60
    /\ c.budgetCZK >= 1
C26_InvalidRefused ==
    /\ [][InvalidRefused]_vars
    /\ [](\A id \in DOMAIN sessions : WithinLimits(sessions[id].config))
C26_Witness ==
    /\ exchange.route = "POST /sessions"
    /\ exchange.code = 400
    /\ given(exchange.body, "maxSteps")
    /\ exchange.body.value.maxSteps[1].type = "number"
    /\ exchange.body.value.maxSteps[1].value = 51
    /\ sessions # <<>>

(* C27: the improvements, userQuotes and issuesFound of generateSummary    *)
(* hold every distinct string of the suggestions, the quotes and the       *)
(* context's issues once, in the order of first occurrence; removing       *)
(* duplicates from them again changes nothing; totalSteps is the length of *)
(* the step list.                                                          *)
firstAt(in, x) == CHOOSE k \in DOMAIN in : in[k] = x /\ \A l \in 1..(k - 1) : in[l] # x
EachOnceInOrder(out, in) ==
    /\ \A i, j \in DOMAIN out : out[i] = out[j] => i = j
    /\ \A k \in DOMAIN in : \E i \in DOMAIN out : out[i] = in[k]
    /\ \A i \in DOMAIN out : \E k \in DOMAIN in : in[k] = out[i]
    /\ \A i, j \in DOMAIN out : i < j => firstAt(in, out[i]) < firstAt(in, out[j])
C27_SummaryDeduplicates ==
    report # <<>> =>
        LET summary == report[1].summary
        IN /\ EachOnceInOrder(summary.improvements, collectImprovements(steps))
           /\ EachOnceInOrder(summary.userQuotes, collectQuotes(steps))
           /\ EachOnceInOrder(summary.issuesFound, context.issuesFound)
           /\ unique(summary.improvements) = summary.improvements
           /\ unique(summary.userQuotes) = summary.userQuotes
           /\ unique(summary.issuesFound) = summary.issuesFound
           /\ summary.totalSteps = Len(steps)
C27_Witness ==
    /\ report # <<>>
    /\ report[1].summary.improvements = <<"improve contrast", "add labels", "Improve contrast">>
    /\ Len(collectImprovements(steps)) = 5
    /\ report[1].summary.userQuotes = <<"this is hard", "This is hard">>
    /\ report[1].summary.issuesFound = <<"slow load", "Slow load">>
    /\ Len(context.issuesFound) = 3

(* C28: the tracker's counters are the sums of the arguments of the        *)
(* addUsage calls made so far; isOverBudget is true exactly when the cost  *)
(* of those tokens in CZK is above the budget, and not when it equals the  *)
(* budget; once true it stays true.                                        *)
RECURSIVE sumOf(_, _)
sumOf(log, k) == IF log = <<>> THEN 0 ELSE Head(log)[k] + sumOf(Tail(log), k)
costOf(log) ==
    (sumOf(log, 1) * PRICE_PER_INPUT_TOKEN_USD + sumOf(log, 2) * PRICE_PER_OUTPUT_TOKEN_USD)
    * czkPerUsdTenths
CountersAreSums ==
    tracker = [inputTokens |-> sumOf(usageLog, 1), outputTokens |-> sumOf(usageLog, 2)]
C28_OverBudgetExactly ==
    /\ CountersAreSums
    /\ isOverBudget(tracker, config.budgetCZK) <=> costOf(usageLog) > config.budgetCZK * CZKScale
StaysOverBudget ==
    [][isOverBudget(tracker, config.budgetCZK) => isOverBudget(tracker', config.budgetCZK)]_vars

(* C29: the budget and the timeout end the session only at the check at    *)
(* the head of the loop.  While a step is executing with the budget        *)
(* exceeded or the timeout elapsed, each sub-call is followed by the next  *)
(* one (or by the catch block when a collaborator throws), the evaluation  *)
(* pushes the step and is followed by the summary call unless the step is  *)
(* the last, and at the next check the session goes on to browser.close(). *)
IterationPcs == StepPcs \cup {"summarize"}
nextSubCall ==
    CASE pc = "capture" -> "analyze"
      [] pc = "analyze" -> "expect"
      [] pc = "expect" -> "decide"
      [] pc = "decide" -> "act"
      [] pc = "act" -> "settle"
      [] pc = "settle" -> "captureAfter"
      [] pc = "captureAfter" -> "evaluate"
      [] pc = "evaluate" -> IF stepNumber < config.maxSteps THEN "summarize" ELSE "loop"
      [] pc = "summarize" -> "loop"
Exceeded == isOverBudget(tracker, config.budgetCZK) \/ timeoutReached
LimitLogs == {"Session timeout reached", "Budget limit reached"}
ChecksAtBoundary ==
    /\ (exitLog' # exitLog /\ exitLog' \in LimitLogs) => pc = "loop"
    /\ (pc \in IterationPcs /\ Exceeded /\ pc' # pc) =>
           \/ pc' = nextSubCall /\ exitLog' = exitLog
           \/ pc' = "close" /\ exitLog' = "step failed"
    /\ (pc = "evaluate" /\ pc' = nextSubCall) =>
           /\ Len(steps') = Len(steps) + 1
           /\ steps'[Len(steps')].stepNumber = stepNumber
    /\ (pc = "loop" /\ Exceeded /\ pc' # pc) =>
           /\ pc' = "close"
           /\ loopCondition => exitLog' \in LimitLogs
C29_ChecksAtBoundary == [][ChecksAtBoundary]_vars
C29_Witness ==
    /\ pc = "loop"
    /\ loopCondition
    /\ isOverBudget(tracker, config.budgetCZK)
    /\ Len(steps) = stepNumber - 1
    /\ Len(steps) >= 1
    /\ context.stepCount = Len(steps)
    /\ ~isOverBudget([inputTokens |-> tracker.inputTokens - 3 * BigUsage[1],
                      outputTokens |-> tracker.outputTokens - 3 * BigUsage[2]],
                     config.budgetCZK)

(* C30: each LLM call that returns adds its usage to the tracker in the    *)
(* same step of the await chain, nothing else changes the tracker, a call  *)
(* adds one usage at most, and at every check at the head of the loop the  *)
(* tracker holds one usage for each call that has returned: the page       *)
(* context, four calls for each step pushed and one summary for each       *)
(* updateContext.                                                           *)
LLMPcs == {"pageContext", "analyze", "expect", "decide", "evaluate", "summarize"}
OneUsage == \E u \in Usages : tracker' = addUsage(tracker, u[1], u[2])
UsageWithEachCall ==
    /\ (pc \in LLMPcs /\ pc' \notin {pc, "close", "done"}) => OneUsage
    /\ tracker' # tracker => (pc \in LLMPcs /\ OneUsage)
callsReturned == 1 + 4 * Len(steps) + context.stepCount
UsagesOfReturnedCalls ==
    pc = "loop" =>
        \E big \in 0..callsReturned :
            tracker = [inputTokens |-> (callsReturned - big) * SmallUsage[1]
                                       + big * BigUsage[1],
                       outputTokens |-> (callsReturned - big) * SmallUsage[2]
                                        + big * BigUsage[2]]
C30_UsageWithEachCall == [][UsageWithEachCall]_vars /\ []UsagesOfReturnedCalls
C30_Witness ==
    /\ pc = "loop"
    /\ stepNumber = 2
    /\ context.stepCount = 1
    /\ tracker = [inputTokens |-> 5 * SmallUsage[1] + BigUsage[1],
                  outputTokens |-> 5 * SmallUsage[2] + BigUsage[2]]

(* C31: executeStep is invoked for step N only from the loop head, with no *)
(* step in flight, when the results of steps 1..N-1 have been pushed and   *)
(* the context has been updated after step N-1: its stepCount is N-1 and,  *)
(* for N >= 2, its lastStepResult is the result of step N-1 and its        *)
(* currentSummary the summary generated after step N-1.  The context does  *)
(* not change while the step runs.                                         *)
PredecessorsDone ==
    /\ Len(steps) = stepNumber - 1
    /\ \A k \in 1..Len(steps) : steps[k].stepNumber = k
    /\ context.stepCount = stepNumber - 1
    /\ stepNumber = 1 => context = createInitialContext(config.intent, context.pageContext)
    /\ stepNumber >= 2 =>
           /\ context.lastStepResult = <<steps[stepNumber - 1]>>
           /\ context.currentSummary = <<"after step", stepNumber - 1>>
OneStepInFlight ==
    /\ pc' = "capture" => (pc = "loop" /\ cur = NoStep /\ PredecessorsDone)
    /\ (pc \in StepPcs /\ pc' \in StepPcs) => (context' = context /\ stepNumber' = stepNumber)
C31_StepsInSequence ==
    /\ [](pc \in StepPcs => PredecessorsDone)
    /\ [][OneStepInFlight]_vars
C31_Witness ==
    /\ pc = "capture"
    /\ stepNumber = 3
    /\ context.stepCount = 2
    /\ context.lastStepResult = <<steps[2]>>
    /\ steps[2] # steps[1]

(* C32: updateContext returns a new object whose stepCount is the input's *)
(* stepCount + 1, whose currentSummary is newSummary, whose lastStepResult *)
(* is stepResult and whose intent and pageContext are the input's, with an *)
(* issue array of its own; no object or array that existed before the call *)
(* is changed, the input context and its issue array among them.           *)
(* createInitialContext returns a new object with the intent and page      *)
(* context given, stepCount 0, the empty summary and an empty issue array. *)
Allocated(r) == r \in DOMAIN heap'.objects /\ r \notin DOMAIN heap.objects
NothingModified == \A r \in DOMAIN heap.objects : heap'.objects[r] = heap.objects[r]
UpdateContextReturns ==
    heap'.call.fn = "updateContext" =>
        LET c == heap'.call.context
            input == deref(heap.objects, c)
            output == deref(heap'.objects, heap'.call.result)
        IN /\ Allocated(heap'.call.result)
           /\ Allocated(heap'.objects[heap'.call.result].issuesFound)
           /\ output.stepCount = input.stepCount + 1
           /\ output.currentSummary = heap'.call.newSummary
           /\ output.lastStepResult = <<heap'.call.stepResult>>
           /\ output.intent = input.intent
           /\ output.pageContext = input.pageContext
           /\ NothingModified
           /\ deref(heap'.objects, c) = input
CreateInitialContextReturns ==
    heap'.call.fn = "createInitialContext" =>
        LET output == deref(heap'.objects, heap'.call.result)
        IN /\ Allocated(heap'.call.result)
           /\ Allocated(heap'.objects[heap'.call.result].issuesFound)
           /\ output.stepCount = 0
           /\ output.currentSummary = ""
           /\ output.issuesFound = <<>>
           /\ output.lastStepResult = Undefined
           /\ output.intent = heap'.call.intent
           /\ output.pageContext = heap'.call.pageContext
           /\ NothingModified
C32_UpdateContextIsPure == [][UpdateContextReturns /\ CreateInitialContextReturns]_vars
(* one context updated twice: the second result has the issue of the call, *)
(* the first result still has its own                                      *)
C32_Witness ==
    /\ heap.call.fn = "updateContext"
    /\ heap.call.context = 2
    /\ Len(heap.objects) = 6
    /\ heap.objects[3] = <<LoudNote>>
    /\ heap.objects[5] = <<BadNote>>
    /\ heap.objects[1] = <<>>
    /\ heap.objects[6].stepCount = 1

(* C33: detectCategory returns the first category, in the order form,      *)
(* navigation, performance, a11y, onboarding, copy, validation, feedback,  *)
(* security, interaction, whose keywords occur in the lower-cased text,    *)
(* and ux when none does.                                                  *)
CategoriesMatching(text) ==
    {k \in 1..Len(CategoryKeywords) : categoryMatches(toLowerCase(text), CategoryKeywords[k])}
C33_FirstCategoryWins ==
    detected.category # <<>> =>
        LET matching == CategoriesMatching(issueIn)
        IN /\ matching = {} => detected.category = <<"u", "x">>
           /\ matching # {} =>
                 \E k \in matching :
                    /\ \A j \in matching : k <= j
                    /\ detected.category = CategoryKeywords[k].category
(* "error Form button ": validation, form and interaction match, form wins *)
C33_Witness ==
    /\ detected.category = <<"f", "o", "r", "m">>
    /\ CategoriesMatching(issueIn) = {1, 7, 10}
    /\ issueIn[1] = "e"

(* C34: detectSeverity returns high when a high-severity keyword occurs in *)
(* the lower-cased text, whatever else occurs and whatever the category;   *)
(* otherwise medium when the onboarding-confusion rule, the password-rule  *)
(* rule or a general confusion or missing keyword applies; otherwise low.  *)
HighFound(text) == includesAny(toLowerCase(text), HighKeywords)
MediumFound(text, category) ==
    \/ category = <<"o", "n", "b", "o", "a", "r", "d", "i", "n", "g">> /\ includesAny(toLowerCase(text), OnboardingConfusionKeywords)
    \/ /\ includesAny(toLowerCase(text), PasswordKeywords)
       /\ includesAny(toLowerCase(text), RuleGapKeywords)
    \/ includesAny(toLowerCase(text), GeneralMediumKeywords)
C34_HighFirst ==
    detected.severity # "" =>
        detected.severity = IF HighFound(issueIn) THEN "high"
                            ELSE IF MediumFound(issueIn, categoryIn) THEN "medium"
                            ELSE "low"
(* "password missing Cannot " in the onboarding category *)
C34_Witness ==
    /\ detected.severity = "high"
    /\ MediumFound(issueIn, categoryIn)
    /\ includes(toLowerCase(issueIn), <<"p", "a", "s", "s", "w", "o", "r", "d">>)
    /\ includes(toLowerCase(issueIn), <<"c", "a", "n", "n", "o", "t">>)
    /\ categoryIn = <<"o", "n", "b", "o", "a", "r", "d", "i", "n", "g">>

(* C35: no two issues of the list buildJsonReport emits overlap: the       *)
(* lower-cased title of neither contains the first 20 characters of the    *)
(* lower-cased title of the other.  The emitted list is the start of the   *)
(* candidates that were kept, in their order; the first candidate is kept, *)
(* and a candidate that was not kept overlaps a candidate kept before it.  *)
Overlap(a, b) ==
    \/ includes(toLowerCase(a.title), slice(toLowerCase(b.title), 20))
    \/ includes(toLowerCase(b.title), slice(toLowerCase(a.title), 20))
NoOverlapIn(issues) ==
    \A i \in 1..Len(issues) : \A j \in (i + 1)..Len(issues) : ~Overlap(issues[i], issues[j])
KeptIn(kept, issue) == \E k \in 1..Len(kept) : kept[k] = issue
DropsExplained(candidates, kept) ==
    /\ candidates # <<>> => (kept # <<>> /\ kept[1] = candidates[1])
    /\ \A k \in 1..Len(kept) : \E i \in 1..Len(candidates) : kept[k] = candidates[i]
    /\ \A k \in 1..Len(kept) : \A l \in (k + 1)..Len(kept) :
          \E i \in 1..Len(candidates) : \E j \in (i + 1)..Len(candidates) :
              kept[k] = candidates[i] /\ kept[l] = candidates[j]
    /\ \A i \in 1..Len(candidates) :
          \/ KeptIn(kept, candidates[i])
          \/ \E j \in 1..(i - 1) :
                KeptIn(kept, candidates[j]) /\ Overlap(candidates[j], candidates[i])
C35_NoOverlappingIssues ==
    session.jsonReport # <<>> =>
        /\ NoOverlapIn(session.jsonReport[1].issues)
        /\ NoOverlapIn(buildJsonReportUncapped(report[1]).issues)
        /\ IsPrefix(session.jsonReport[1].issues, buildJsonReportUncapped(report[1]).issues)
        /\ DropsExplained(classifyReport(report[1]).issues,
                          buildJsonReportUncapped(report[1]).issues)
(* a candidate was dropped whose title contains the whole of a shorter     *)
(* title kept before it, and several issues are emitted                    *)
DroppedForShorter(candidates, emitted) ==
    \E i \in 1..Len(candidates) :
        /\ ~KeptIn(emitted, candidates[i])
        /\ \E k \in 1..Len(emitted) :
              /\ Len(emitted[k].title) < 20
              /\ includes(toLowerCase(candidates[i].title), toLowerCase(emitted[k].title))
              /\ ~includes(toLowerCase(emitted[k].title),
                           slice(toLowerCase(candidates[i].title), 20))
C35_Witness ==
    /\ session.jsonReport # <<>>
    /\ Len(session.jsonReport[1].issues) >= 2
    /\ DroppedForShorter(classifyReport(report[1]).issues, session.jsonReport[1].issues)

(* C36: before the caps and the de-duplication every note of every step is *)
(* in exactly one list: the notes classified negative are the issue        *)
(* candidates that come from notes, those classified positive are the      *)
(* positives, and all the others are the observations, each with the       *)
(* number of its step and in encounter order.  As claimed, of all notes;   *)
(* as amended, of the notes of 15 characters or more, the shorter ones     *)
(* being in no list.                                                       *)
RECURSIVE NotesFrom(_, _)
NotesFrom(stepList, minLength) ==
    IF stepList = <<>> THEN <<>>
    ELSE LET step == Head(stepList)
             long == SelectSeq(step.evaluation.notes, LAMBDA n : Len(n) >= minLength)
         IN [i \in 1..Len(long) |-> [step |-> step.stepNumber, text |-> long[i]]]
            \o NotesFrom(Tail(stepList), minLength)
EvidenceOf(entries) == [i \in 1..Len(entries) |-> entries[i].evidence]
AsEvidence(notes) ==
    [i \in 1..Len(notes) |-> [step |-> notes[i].step, description |-> notes[i].text]]
FromNote(entry) == entry.evidence.step # 0 /\ ~FromSuggestion(entry)
ClassifiedOnce(lists, notes) ==
    /\ EvidenceOf(SelectSeq(lists.issues, FromNote))
          = AsEvidence(SelectSeq(notes, LAMBDA n : classifyNoteSentiment(n.text) = "negative"))
    /\ EvidenceOf(lists.positives)
          = AsEvidence(SelectSeq(notes, LAMBDA n : classifyNoteSentiment(n.text) = "positive"))
    /\ lists.observations
          = SelectSeq(notes, LAMBDA n : classifyNoteSentiment(n.text)
                                            \notin {"negative", "positive"})
C36_EveryNoteClassified ==
    session.jsonReport # <<>> =>
        ClassifiedOnce(classifyReport(report[1]), NotesFrom(report[1].steps, 0))
C36_LongNotesClassified ==
    session.jsonReport # <<>> =>
        ClassifiedOnce(classifyReport(report[1]), NotesFrom(report[1].steps, 15))
(* a report with a short note and with notes of the three kinds *)
HasAllKinds(lists, all, long) ==
    /\ Len(all) > Len(long)
    /\ SelectSeq(lists.issues, FromNote) # <<>>
    /\ lists.positives # <<>>
    /\ lists.observations # <<>>
    /\ Len(SelectSeq(lists.issues, FromNote)) + Len(lists.positives) + Len(lists.observations)
          = Len(long)
C36_Witness ==
    /\ session.jsonReport # <<>>
    /\ HasAllKinds(classifyReport(report[1]), NotesFrom(report[1].steps, 0),
                   NotesFrom(report[1].steps, 15))

(* C37: with several sessions running at once, a step of the run of one    *)
(* session changes the registry entry of that session and of no other, and *)
(* the browser manager and the cost tracker of that run and of no other;   *)
(* no two runs hold the same browser manager or the same cost tracker.     *)
OwnObjects ==
    \A a \in DOMAIN runs.own : \A b \in DOMAIN runs.own :
        a # b => /\ runs.own[a].browser # runs.own[b].browser
                 /\ runs.own[a].costTracker # 0 =>
                        runs.own[a].costTracker # runs.own[b].costTracker
ChangedEntries == {id \in DOMAIN sessions : id \in DOMAIN sessions' /\ sessions'[id] # sessions[id]}
ChangedTrackers == {k \in DOMAIN runs.trackers : runs'.trackers[k] # runs.trackers[k]}
ChangedBrowsers == {k \in DOMAIN runs.browsers : runs'.browsers[k] # runs.browsers[k]}
OnlyOwnEntry ==
    \/ ChangedEntries = {} /\ ChangedTrackers = {} /\ ChangedBrowsers = {}
    \/ \E a \in DOMAIN tasks :
          /\ tasks[a] \in {"awaiting", "rendering"}
          /\ ChangedEntries = {a}
          /\ ChangedTrackers \subseteq {runs.own[a].costTracker}
          /\ ChangedBrowsers \subseteq {runs.own[a].browser}
          /\ \A id \in DOMAIN sessions \ {a} : id \in DOMAIN sessions'
C37_RunsAreIsolated == []OwnObjects /\ [][OnlyOwnEntry]_vars
(* two sessions running at once, each with steps and usage of its own *)
C37_Witness ==
    /\ DOMAIN sessions = {1, 2}
    /\ tasks[1] = "awaiting"
    /\ tasks[2] = "awaiting"
    /\ sessions[1].progress[1].currentStep = 2
    /\ sessions[2].progress[1].currentStep = 1
    /\ runs.trackers[runs.own[1].costTracker] # runs.trackers[runs.own[2].costTracker]

(* C38: whenever a request handler can look at the registry, that is when  *)
(* no run is between its await and the end of its turn, a completed entry  *)
(* has report, jsonReport and completedAt, a failed entry has error and    *)
(* completedAt, and a pending or running entry has no report and no        *)
(* jsonReport.                                                             *)
Consistent(entry) ==
    /\ entry.status = "completed" =>
          entry.report # Undefined /\ entry.jsonReport # Undefined /\ entry.completedAt # Undefined
    /\ entry.status = "failed" => entry.error # Undefined /\ entry.completedAt # Undefined
    /\ entry.status \in {"pending", "running"} =>
          entry.report = Undefined /\ entry.jsonReport = Undefined
C38_ObservedEntriesConsistent == Quiet => \A id \in DOMAIN sessions : Consistent(sessions[id])
(* a completed entry, and an entry failed by buildJsonReport after its *)
(* report was stored                                                    *)
C38_Witness ==
    /\ Quiet
    /\ \E a \in DOMAIN sessions : \E b \in DOMAIN sessions :
          /\ sessions[a].status = "completed"
          /\ sessions[a].jsonReport # Undefined
          /\ sessions[b].status = "failed"
          /\ sessions[b].report # Undefined
          /\ sessions[b].error # Undefined

(* C39: an entry leaves the registry only if its status is completed or    *)
(* failed and more than 24 hours have passed since its creation; a pending *)
(* or running entry is never removed, whatever its age; and the cleanup    *)
(* leaves every entry it keeps as it was.                                  *)
Removed == DOMAIN sessions \ DOMAIN sessions'
RemovesOnlyOldTerminal ==
    \A id \in Removed :
        /\ sessions[id].status \in {"completed", "failed"}
        /\ sessions[id].status \notin {"pending", "running"}
        /\ clock - sessions[id].createdAt > 24 * 60 * 60 * 1000
KeepsTheRest ==
    \A id \in DOMAIN sessions' : id \in DOMAIN sessions /\ sessions'[id] = sessions[id]
C39_CleanupRemovesOnlyExpired ==
    [][RemovesOnlyOldTerminal /\ (Cleanup \/ Removed # {} => KeepsTheRest)]_vars
(* a completed or failed entry was removed while a running entry older   *)
(* than 24 hours is still there                                          *)
C39_Witness ==
    /\ uuids = 2
    /\ DOMAIN sessions = {1}
    /\ sessions[1].status = "running"
    /\ clock - sessions[1].createdAt > SESSION_TTL_MS

====
